---- MODULE Spec2Model ----
(***************************************************************************)
(* A model of the portfolio analytics engine of portfolios-service         *)
(* (src/service.go): the Currency Normalizer, the chronological sort, the  *)
(* Cash Reconciler, the Position Ledger, the allocation and summary views  *)
(* and the drawdown bookkeeping of the backtest.                           *)
(*                                                                         *)
(* Arithmetic.  The code computes in float64.  The model computes the same *)
(* expressions exactly: money amounts that only add, subtract and multiply *)
(* are integers, and every quantity that passes through a division         *)
(* (average cost, weights, simulated shares, drawdown) is an exact         *)
(* rational <<numerator, denominator>>.  Rounding error of float64 is      *)
(* therefore outside the model; NaN and infinities never arise because     *)
(* every division of the code is guarded by a positive denominator.        *)
(*                                                                         *)
(* Dates are day numbers, transaction ids are integers compared with <     *)
(* (the code compares the id strings, also a total order).                 *)
(***************************************************************************)
EXTENDS Integers, Sequences, FiniteSets, TLC

VARIABLES
    refCCY,      \* TransactionService.refCCY
    exchanger,   \* TransactionService.exchanger: NoExchanger or the answers of Rate(from, refCCY)
    prices,      \* TransactionService.prices: configured or nil
    quotes,      \* the answers GetPrice gave to the running computation, per symbol
    txs,         \* the transaction slice handed to the computation
    pc,          \* position of the running computation
    xs,          \* computeCashStats: the sorted copy of txs
    i,           \* loop index of the running fold (1-based)
    st,          \* computeCashStats: the loop's local variables
    cs,          \* computeCashStats: the returned cashStats
    bucket,      \* Position Ledger: symbol -> agg
    out,         \* the AllocationResponse / SummaryResponse returned
    rateFrom,    \* argument of the last direct call of rate
    rateOut,     \* result of the last direct call of rate
    bt,          \* computeBacktestFromTxs: its arguments and local variables
    allocBasis,  \* computeAllocationsFromTxs: the basis argument of the call
    pv,          \* a price provider: its caches, its lock and its callers
    hl,          \* a historical price lookup: series, requested date, basis, result
    store,       \* the transaction repository of one portfolio and the last response
    cp,          \* the service copy WithRef returned last, and its argument
    repo         \* the portfolio and transaction repositories and their callers

vars ==
    <<refCCY, exchanger, prices, quotes, txs, pc, xs, i, st, cs, bucket, out,
      rateFrom, rateOut, bt, allocBasis, pv, hl, store, cp, repo>>

(***************************************************************************)
(* Bounds of the model.                                                    *)
(***************************************************************************)
MaxTxs == 3          \* longest transaction list of the cash specification
MaxLedgerTxs == 3    \* longest transaction list of the ledger specification

\* the days transactions are dated
Dates == {1, 2}
FirstDate == CHOOSE d \in Dates : \A e \in Dates : d <= e
LastDate == CHOOSE d \in Dates : \A e \in Dates : e <= d

(***************************************************************************)
(* Exact rational arithmetic.                                              *)
(***************************************************************************)
Abs(x) == IF x < 0 THEN -x ELSE x

Max(a, b) == IF a >= b THEN a ELSE b

RECURSIVE GCD(_, _)
GCD(a, b) == IF b = 0 THEN a ELSE GCD(b, a % b)

\* the rational n/d in lowest terms with a positive denominator (d # 0)
Rat(n, d) ==
    LET g == GCD(Abs(n), Abs(d))
        s == IF d < 0 THEN -1 ELSE 1
    IN  <<(s * n) \div g, (s * d) \div g>>

RInt(n) == <<n, 1>>
\* sums go through the least common denominator, which keeps the numbers small
RAdd(a, b) ==
    LET g == GCD(a[2], b[2])
    IN  Rat(a[1] * (b[2] \div g) + b[1] * (a[2] \div g), (a[2] \div g) * b[2])
RSub(a, b) == RAdd(a, <<-b[1], b[2]>>)
RMul(a, b) ==
    LET x == Rat(a[1], b[2])
        y == Rat(b[1], a[2])
    IN  Rat(x[1] * y[1], x[2] * y[2])
RDiv(a, b) == RMul(a, Rat(b[2], b[1]))
RLt(a, b) == RSub(a, b)[1] < 0
RLe(a, b) == RSub(a, b)[1] <= 0
RZero == <<0, 1>>

RECURSIVE RSum(_)
RSum(s) == IF s = <<>> THEN RZero ELSE RAdd(s[1], RSum(Tail(s)))

RECURSIVE SumSeq(_)
SumSeq(s) == IF s = <<>> THEN 0 ELSE s[1] + SumSeq(Tail(s))

(***************************************************************************)
(* Strings.  Currency codes are modelled as the strings below; ToUpper and *)
(* TrimSpace are the library functions restricted to them.                 *)
(***************************************************************************)
CurrencyStrings == {"TWD", "twd", "USD", "usd", "EUR", "", " ", " USD"}

ToUpper(s) ==
    CASE s = "twd" -> "TWD"
      [] s = "usd" -> "USD"
      [] s = "amzn" -> "AMZN"
      [] OTHER -> s

TrimSpace(s) ==
    CASE s = " " -> ""
      [] s = " USD" -> "USD"
      [] OTHER -> s

\* strings.EqualFold: equality under case folding
EqualFold(a, b) == ToUpper(a) = ToUpper(b)

(***************************************************************************)
(* Currency Normalizer.                                                    *)
(***************************************************************************)
\* answers of CurrencyExchanger.Rate: (rate, err)
ExchangerResults == [r : {-1, 0, 2, 30}, err : BOOLEAN]

\* a configured exchanger that answers every lookup with res
Answering(res) == [nil |-> FALSE, ans |-> [c \in CurrencyStrings |-> res]]

\* s.exchanger == nil
NoExchanger == [nil |-> TRUE, ans |-> [c \in CurrencyStrings |-> [r |-> 0, err |-> TRUE]]]

\* a bug: a non-positive rate of the exchanger is passed on
rate_NoPositiveCheck(from) ==
    IF exchanger.nil \/ EqualFold(from, refCCY) \/ TrimSpace(from) = ""
    THEN 1
    ELSE LET res == exchanger.ans[from]
         IN  IF res.err THEN 1 ELSE res.r

rate(from) ==
    IF exchanger.nil \/ EqualFold(from, refCCY) \/ TrimSpace(from) = ""
    THEN 1
    ELSE LET res == exchanger.ans[from]
         IN  IF res.err \/ res.r <= 0 THEN 1 ELSE res.r

\* s.prices == nil, and a configured provider
\* (history: the provider also implements HistoryProvider)
NoProvider == [nil |-> TRUE, history |-> FALSE]
SomeProvider == [nil |-> FALSE, history |-> FALSE]
HistoryCapable == [nil |-> FALSE, history |-> TRUE]

(***************************************************************************)
(* Symbols and prices.                                                     *)
(***************************************************************************)
OptionSymbol == "AAPL240118C00150000"

Symbols == {"AMZN", "BHP.AX", OptionSymbol}

\* the characters of the modelled symbols (stored symbols are trimmed and
\* upper-cased by toDomain, so ToUpper(TrimSpace(sym)) leaves them as they are)
SymbolChars(sym) ==
    CASE sym = "AMZN" -> <<"A", "M", "Z", "N">>
      [] sym = "BHP.AX" -> <<"B", "H", "P", ".", "A", "X">>
      [] sym = OptionSymbol ->
            <<"A", "A", "P", "L", "2", "4", "0", "1", "1", "8", "C",
              "0", "0", "1", "5", "0", "0", "0", "0">>
      [] OTHER -> <<>>

Letters ==
    {"A", "B", "C", "D", "E", "F", "G", "H", "I", "J", "K", "L", "M",
     "N", "O", "P", "Q", "R", "S", "T", "U", "V", "W", "X", "Y", "Z"}

Digits == {"0", "1", "2", "3", "4", "5", "6", "7", "8", "9"}

\* reOptionSymbol: ^[A-Z]{1,6}\d{6}[CP]\d{8}$
MatchesOptionSymbol(c) ==
    \E k \in 1..6 :
        /\ Len(c) = k + 15
        /\ \A j \in 1..k : c[j] \in Letters
        /\ \A j \in (k + 1)..(k + 6) : c[j] \in Digits
        /\ c[k + 7] \in {"C", "P"}
        /\ \A j \in (k + 8)..(k + 15) : c[j] \in Digits

multiplierForSymbol(sym) == IF MatchesOptionSymbol(SymbolChars(sym)) THEN 100 ELSE 1

\* answers of PriceProvider.GetPrice: (price, err)
PriceResults == {[price |-> 110, err |-> FALSE], [price |-> 0, err |-> FALSE],
                 [price |-> 0, err |-> TRUE]}

\* no symbol has been priced
NoQuotes == [y \in Symbols |-> [price |-> 0, err |-> TRUE]]

\* the answers a provider may give when the symbols of asked are priced
QuotesFor(asked) ==
    {q \in [Symbols -> PriceResults] : \A y \in Symbols \ asked : q[y] = NoQuotes[y]}

(***************************************************************************)
(* Chronological order.                                                    *)
(***************************************************************************)
\* the cash delta of one transaction in the reference currency
\* (closure deltaA of the comparator and the switch at the head of the loop)
Delta(tx) ==
    CASE tx.tt = "buy" -> (0 - Abs(tx.total)) * rate(tx.ccy)
      [] tx.tt = "sell" -> Abs(tx.total) * rate(tx.ccy)
      [] tx.tt = "dividend" -> Abs(tx.total) * rate(tx.ccy)
      [] tx.tt = "cash" -> tx.total * rate(tx.ccy)
      [] OTHER -> 0

\* a bug: equal deltas of one date are left in input order
CashLess_NoIdTieBreak(a, b) ==
    IF a.date < b.date THEN TRUE
    ELSE IF a.date > b.date THEN FALSE
    ELSE Delta(a) > Delta(b)

\* a bug: the transactions of one date are left in input order
CashLess_DateOnly(a, b) == a.date < b.date

\* comparator of computeCashStats
CashLess(a, b) ==
    IF a.date < b.date THEN TRUE
    ELSE IF a.date > b.date THEN FALSE
    ELSE IF Delta(a) = Delta(b) THEN a.id < b.id
    ELSE Delta(a) > Delta(b)

\* comparator of the Position Ledger folds
DateLess(a, b) == a.date < b.date

\* comparator of insertionSortEvents: by time, deposits before withdrawals
EventLess(a, b) ==
    IF a.when < b.when THEN TRUE
    ELSE IF a.when > b.when THEN FALSE
    ELSE IF a.kind = b.kind THEN FALSE
    ELSE a.kind = "deposit" /\ b.kind = "withdrawal"

\* comparator of List with sort=date_desc
DateAfter(a, b) == a.date > b.date

Less(kind, a, b) ==
    CASE kind = "cash" -> CashLess(a, b)
      [] kind = "date" -> DateLess(a, b)
      [] kind = "date_desc" -> DateAfter(a, b)
      [] kind = "event" -> EventLess(a, b)

\* inner loop of insertionSort: element j moves left while it is less
RECURSIVE Sift(_, _, _)
Sift(s, j, kind) ==
    IF j > 1 /\ Less(kind, s[j], s[j - 1])
    THEN Sift([s EXCEPT ![j] = s[j - 1], ![j - 1] = s[j]], j - 1, kind)
    ELSE s

RECURSIVE SortFrom(_, _, _)
SortFrom(s, k, kind) ==
    IF k > Len(s) THEN s ELSE SortFrom(Sift(s, k, kind), k + 1, kind)

insertionSort(s, kind) == SortFrom(s, 2, kind)

(***************************************************************************)
(* Transactions.                                                           *)
(***************************************************************************)
\* a stored Transaction: the fields the engine reads
MakeTx(t, id, date) ==
    [id |-> id, date |-> date, tt |-> t.tt, sym |-> t.sym, ccy |-> t.ccy,
     shares |-> t.shares, total |-> t.total]

\* the lists of at most n transactions over the templates of pool; the id of a
\* transaction is its position in the list (other assignments of ids to
\* positions are the permutations of these lists)
TxLists(pool, n) ==
    UNION {{[j \in 1..k |-> MakeTx(c[j][1], j, c[j][2])] : c \in [1..k -> pool \X Dates]}
           : k \in 0..n}

\* the same over templates that carry their date
DatedTxLists(dated, n) ==
    UNION {{[j \in 1..k |-> MakeTx(c[j][1], j, c[j][2])] : c \in [1..k -> dated]}
           : k \in 0..n}

Tmpl(tt, sym, ccy, shares, total) ==
    [tt |-> tt, sym |-> sym, ccy |-> ccy, shares |-> shares, total |-> total]

\* every reordering of a list
Perms(s) ==
    {[j \in 1..Len(s) |-> s[f[j]]] :
        f \in {g \in [1..Len(s) -> 1..Len(s)] : \A a, b \in 1..Len(s) : a # b => g[a] # g[b]}}

(***************************************************************************)
(* Cash Reconciler: computeCashStats.                                      *)
(***************************************************************************)
Event(when, amount) == [when |-> when, amount |-> amount]

\* the loop's local variables before the first transaction
ZeroSt ==
    [sum |-> 0, prefix |-> 0, minPrefix |-> 0, deposits |-> 0, withdrawals |-> 0,
     contribPrefix |-> 0, peakContrib |-> 0, inferredTotal |-> 0,
     inferredEvents |-> <<>>, depositEvents |-> <<>>, withdrawalEvents |-> <<>>]

\* cashStats{}
ZeroStats ==
    [deposits |-> 0, withdrawals |-> 0, inferred |-> 0, balance |-> 0, effectiveIn |-> 0,
     peakContrib |-> 0, inferredEvents |-> <<>>, depositEvents |-> <<>>,
     withdrawalEvents |-> <<>>]

\* case TradeTypeCash of the loop: explicit deposits and withdrawals
CashBook(s, tx) ==
    IF tx.tt # "cash" THEN s
    ELSE LET v == tx.total * rate(tx.ccy)
         IN  IF v >= 0
             THEN [s EXCEPT !.deposits = @ + v,
                            !.contribPrefix = @ + v,
                            !.depositEvents = Append(@, Event(tx.date, v))]
             ELSE [s EXCEPT !.withdrawals = @ + (0 - v),
                            !.contribPrefix = Max(0, @ - (0 - v)),
                            !.withdrawalEvents = Append(@, Event(tx.date, 0 - v))]

\* a bug: the top-up is decided on the balance before the delta is applied
InferNeed_PostCheck(prefix, delta) == IF prefix < 0 THEN 0 - prefix ELSE 0

\* a bug: the top-up covers the whole outflow and ignores the balance at hand
InferNeed_IgnoresBalance(prefix, delta) == IF prefix + delta < 0 THEN 0 - delta ELSE 0

\* the inferred deposit of one step: need, or 0 when none is injected
InferNeed(prefix, delta) == IF prefix + delta < 0 THEN 0 - (prefix + delta) ELSE 0

\* a bug: the inferred deposit is left out of the net contributions
Inject_NotContributed(s, tx) ==
    LET need == InferNeed(s.prefix, Delta(tx))
    IN  IF need = 0 THEN s
        ELSE [s EXCEPT !.inferredTotal = @ + need,
                       !.prefix = @ + need,
                       !.sum = @ + need,
                       !.inferredEvents = Append(@, Event(tx.date, need))]

\* the pre-check of the loop: inject the inferred deposit
Inject(s, tx) ==
    LET need == InferNeed(s.prefix, Delta(tx))
    IN  IF need = 0 THEN s
        ELSE [s EXCEPT !.inferredTotal = @ + need,
                       !.contribPrefix = @ + need,
                       !.prefix = @ + need,
                       !.sum = @ + need,
                       !.inferredEvents = Append(@, Event(tx.date, need))]

\* the tail of the loop body: apply delta, track minPrefix and peakContrib
Apply(s, tx) ==
    LET d == Delta(tx)
        p == s.prefix + d
    IN  [s EXCEPT !.sum = @ + d,
                  !.prefix = p,
                  !.minPrefix = IF p < @ THEN p ELSE @,
                  !.peakContrib = IF s.contribPrefix > @ THEN s.contribPrefix ELSE @]

\* one iteration of the loop over xs
CashStep(s, tx) == Apply(Inject(CashBook(s, tx), tx), tx)

\* a cashStats whose effectiveIn leaves the inferred deposits out
CashResult_NetOfInferred(s) ==
    [deposits |-> s.deposits, withdrawals |-> s.withdrawals, inferred |-> s.inferredTotal,
     balance |-> s.sum, effectiveIn |-> s.deposits - s.withdrawals,
     peakContrib |-> s.peakContrib, inferredEvents |-> s.inferredEvents,
     depositEvents |-> s.depositEvents, withdrawalEvents |-> s.withdrawalEvents]

\* the returned cashStats
CashResult(s) ==
    [deposits |-> s.deposits, withdrawals |-> s.withdrawals, inferred |-> s.inferredTotal,
     balance |-> s.sum, effectiveIn |-> s.deposits - s.withdrawals + s.inferredTotal,
     peakContrib |-> s.peakContrib, inferredEvents |-> s.inferredEvents,
     depositEvents |-> s.depositEvents, withdrawalEvents |-> s.withdrawalEvents]

RECURSIVE CashFold(_, _, _)
CashFold(s, sorted, k) ==
    IF k > Len(sorted) THEN s ELSE CashFold(CashStep(s, sorted[k]), sorted, k + 1)

\* computeCashStats as a function of its argument
computeCashStats(list) ==
    IF Len(list) = 0 THEN ZeroStats
    ELSE CashResult(CashFold(ZeroSt, insertionSort(list, "cash"), 1))

(***************************************************************************)
(* The cash specification: one call of computeCashStats, step by step.     *)
(***************************************************************************)
CashPool ==
    {Tmpl("cash", "", "TWD", 0, 500),
     Tmpl("cash", "", "TWD", 0, -800),
     Tmpl("buy", "AMZN", "TWD", 10, -800),
     Tmpl("sell", "AMZN", "TWD", 10, 1200),
     Tmpl("dividend", "AMZN", "TWD", 0, 50),
     Tmpl("buy", "BHP.AX", "USD", 1, 10)}

CashExchangers == {NoExchanger, Answering([r |-> 30, err |-> FALSE])}

NoBucket == [s \in {} |-> 0]
NoOut == [kind |-> "none"]

\* the local variables of computeBacktestFromTxs before its first statement
ZeroBt ==
    [symbol |-> "", symbolCCY |-> "", evs |-> <<>>, d |-> 0, k |-> 0,
     shares |-> RZero, mult |-> 1, rateSymToRef |-> 1, price |-> 0,
     curPrice |-> 0, curErr |-> FALSE, equityRef |-> RZero,
     altPeak |-> RZero, altMaxDrop |-> RZero, altEquity |-> RZero,
     altPL |-> RZero, altPct |-> RZero, sum |-> NoOut,
     holdings |-> NoBucket, cash |-> 0, priceCache |-> NoBucket,
     curDay |-> 0, haveDay |-> FALSE, eq |-> RZero, peak |-> RZero,
     currentMaxDrop |-> RZero]

\* a provider nobody has called: empty caches, free lock, idle callers
ZeroPv ==
    [now |-> 0, cache |-> <<>>, readers |-> {}, writer |-> 0,
     pc |-> <<>>, method |-> <<>>, fetches |-> <<>>]

\* no lookup in a daily series has been made
ZeroHl ==
    [pc |-> "idle", hs |-> [days |-> <<>>, closes |-> <<>>, opens |-> <<>>],
     date |-> 0, basis |-> "", price |-> 0, asOf |-> 0, err |-> ""]

\* an empty repository that has answered nothing
ZeroStore == [txs |-> <<>>, created |-> 0, op |-> "", err |-> ""]

\* no copy of the service has been made
ZeroCp == [pc |-> "idle", ref |-> <<>>, refCCY |-> ""]

\* no repository has been opened
ZeroRepo ==
    [kind |-> "", portfolios |-> {}, pools |-> {}, transactions |-> {},
     created |-> 0, call |-> "", arg |-> 0,
     filter |-> [symbol |-> "", sort |-> "", limit |-> 0, offset |-> 0],
     clients |-> <<>>]

Init ==
    /\ refCCY = "TWD"
    /\ exchanger \in CashExchangers
    /\ prices = NoProvider
    /\ quotes = NoQuotes
    /\ txs \in TxLists(CashPool, MaxTxs)
    /\ pc = "idle"
    /\ xs = <<>>
    /\ i = 0
    /\ st = ZeroSt
    /\ cs = ZeroStats
    /\ bucket = NoBucket
    /\ out = NoOut
    /\ rateFrom = ""
    /\ rateOut = 0
    /\ bt = ZeroBt
    /\ allocBasis = ""
    /\ pv = ZeroPv
    /\ hl = ZeroHl
    /\ store = ZeroStore
    /\ cp = ZeroCp
    /\ repo = ZeroRepo

envVars == <<refCCY, exchanger, prices>>
rateVars == <<rateFrom, rateOut>>
ledgerVars == <<bucket, out, quotes>>

\* entry of computeCashStats: the empty list returns at once, otherwise the
\* list is copied and the copy sorted
CashSort ==
    /\ pc = "idle"
    /\ IF Len(txs) = 0
       THEN /\ pc' = "cashDone"
            /\ cs' = ZeroStats
            /\ UNCHANGED <<xs, i, st>>
       ELSE /\ pc' = "cashLoop"
            /\ xs' = insertionSort(txs, "cash")
            /\ i' = 1
            /\ st' = ZeroSt
            /\ cs' = cs
    /\ UNCHANGED <<envVars, txs, ledgerVars, rateVars, bt, allocBasis, pv, hl, store, cp, repo>>

\* one iteration of the loop
CashLoop ==
    /\ pc = "cashLoop"
    /\ i <= Len(xs)
    /\ st' = CashStep(st, xs[i])
    /\ i' = i + 1
    /\ UNCHANGED <<envVars, txs, pc, xs, cs, ledgerVars, rateVars, bt, allocBasis, pv, hl, store, cp, repo>>

\* the return statement
CashReturn ==
    /\ pc = "cashLoop"
    /\ i > Len(xs)
    /\ cs' = CashResult(st)
    /\ pc' = "cashDone"
    /\ UNCHANGED <<envVars, txs, xs, i, st, ledgerVars, rateVars, bt, allocBasis, pv, hl, store, cp, repo>>

Next == CashSort \/ CashLoop \/ CashReturn

Spec == Init /\ [][Next]_vars

(***************************************************************************)
(* Position Ledger.  The same loop body stands in                          *)
(* computeAllocationsFromTxs (239-279), ComputeSummaryAll (441-480) and    *)
(* computeSummaryFromTxs (593-634).                                        *)
(***************************************************************************)
\* &agg{}
ZeroAgg == [shares |-> 0, invested |-> RZero, currency |-> ""]

\* a bug: the stored sign of a buy's total is kept
BuyInvested_Signed(invested, tx) == RAdd(invested, RInt(tx.total * rate(tx.ccy)))

\* case TradeTypeBuy: invested after the buy
BuyInvested(invested, tx) == RAdd(invested, RInt(Abs(tx.total) * rate(tx.ccy)))

\* a bug: the quantity sold is not capped at the shares held, nor the result at 0
SellInvested_Unclamped(invested, shares, qty) ==
    IF shares > 0
    THEN RSub(invested, RMul(RDiv(invested, RInt(shares)), RInt(qty)))
    ELSE invested

\* a bug: sells do not reduce invested
SellInvested_Unreduced(invested, shares, qty) == invested

\* case TradeTypeSell: invested after selling qty of the shares held
SellInvested(invested, shares, qty) ==
    IF shares > 0
    THEN LET avgCost == RDiv(invested, RInt(shares))
             sellShares == IF qty > shares THEN shares ELSE qty
             r == RSub(invested, RMul(avgCost, RInt(sellShares)))
         IN  IF RLt(r, RZero) THEN RZero ELSE r
    ELSE invested

\* a ledger that books a dividend as a return of capital
LedgerStep_DividendReducesCost(b, tx) ==
    IF tx.tt \notin {"buy", "sell", "dividend"} THEN b
    ELSE LET a0 == IF tx.sym \in DOMAIN b THEN b[tx.sym] ELSE ZeroAgg
             a1 == IF tx.ccy # "" THEN [a0 EXCEPT !.currency = ToUpper(tx.ccy)] ELSE a0
             a2 == CASE tx.tt = "buy" ->
                          [a1 EXCEPT !.shares = @ + tx.shares,
                                     !.invested = BuyInvested(@, tx)]
                      [] tx.tt = "sell" ->
                          [a1 EXCEPT !.invested = SellInvested(@, a1.shares, tx.shares),
                                     !.shares = @ - tx.shares]
                      [] OTHER ->
                          [a1 EXCEPT !.invested = RSub(@, RInt(Abs(tx.total) * rate(tx.ccy)))]
         IN  [y \in (DOMAIN b) \cup {tx.sym} |-> IF y = tx.sym THEN a2 ELSE b[y]]

\* the loop body: one transaction folded into the bucket map
LedgerStep(b, tx) ==
    IF tx.tt \notin {"buy", "sell", "dividend"} THEN b
    ELSE LET a0 == IF tx.sym \in DOMAIN b THEN b[tx.sym] ELSE ZeroAgg
             a1 == IF tx.ccy # "" THEN [a0 EXCEPT !.currency = ToUpper(tx.ccy)] ELSE a0
             a2 == CASE tx.tt = "buy" ->
                          [a1 EXCEPT !.shares = @ + tx.shares,
                                     !.invested = BuyInvested(@, tx)]
                      [] tx.tt = "sell" ->
                          [a1 EXCEPT !.invested = SellInvested(@, a1.shares, tx.shares),
                                     !.shares = @ - tx.shares]
                      [] OTHER -> a1
         IN  [y \in (DOMAIN b) \cup {tx.sym} |-> IF y = tx.sym THEN a2 ELSE b[y]]

RECURSIVE LedgerFold(_, _, _)
LedgerFold(b, sorted, k) ==
    IF k > Len(sorted) THEN b ELSE LedgerFold(LedgerStep(b, sorted[k]), sorted, k + 1)

\* the bucket map the ledger builds from a list as supplied
Ledger(list) == LedgerFold(NoBucket, insertionSort(list, "date"), 1)

RECURSIVE RSumOver(_, _)
RSumOver(f, S) ==
    IF S = {} THEN RZero
    ELSE LET y == CHOOSE z \in S : TRUE IN RAdd(f[y], RSumOver(f, S \ {y}))

(***************************************************************************)
(* Allocations: the switch on basis of computeAllocationsFromTxs.  The     *)
(* daily P/L fields, which depend on the history provider alone, are not   *)
(* modelled.                                                               *)
(***************************************************************************)
Bases == {"", "invested", "market_value", "Market_Value", "cost"}

ToLower(s) == IF s = "Market_Value" THEN "market_value" ELSE s

ErrorOut(kind, msg) == [kind |-> kind, err |-> msg]

\* totalInv: the sum of the invested capital of the listed items
InvestedTotal(b, kept) == RSumOver([y \in kept |-> b[y].invested], kept)

\* a bug: the weight is left a fraction of 1
WeightPercent_Fraction(value, total) ==
    IF RLt(RZero, total) THEN RDiv(value, total) ELSE RZero

\* WeightPercent of an item worth value in a result totalling total
WeightPercent(value, total) ==
    IF RLt(RZero, total) THEN RMul(RDiv(value, total), RInt(100)) ELSE RZero

\* case "", "invested"
AllocInvested(b) ==
    LET kept == {y \in DOMAIN b : ~(b[y].shares <= 0 /\ b[y].invested = RZero)}
        totalInv == InvestedTotal(b, kept)
    IN  [kind |-> "alloc", err |-> "", basis |-> "invested",
         totalInvested |-> totalInv, totalMarketValue |-> RZero,
         items |-> [y \in kept |->
             [shares |-> b[y].shares, invested |-> b[y].invested, marketValue |-> RZero,
              weightPercent |-> WeightPercent(b[y].invested, totalInv)]]]

\* market value of a held symbol at a price
MarketValue(a, sym, price) == a.shares * price * multiplierForSymbol(sym) * rate(a.currency)

\* the symbols the valuation loops price: those held
Held(b) == {y \in DOMAIN b : b[y].shares > 0}

\* a bug: one failed lookup fails the whole allocation
AllocMarketValue_AbortOnError(b, q) ==
    IF \E y \in Held(b) : q[y].err THEN ErrorOut("alloc", "price lookup failed")
    ELSE LET mv == [y \in Held(b) |-> RInt(MarketValue(b[y], y, q[y].price))]
             totalMV == RSumOver(mv, Held(b))
         IN  [kind |-> "alloc", err |-> "", basis |-> "market_value",
              totalInvested |-> RZero, totalMarketValue |-> totalMV,
              items |-> [y \in Held(b) |->
                  [shares |-> b[y].shares, invested |-> b[y].invested, marketValue |-> mv[y],
                   weightPercent |-> WeightPercent(mv[y], totalMV)]]]

\* case "market_value" with a provider configured that answers q
AllocMarketValue(b, q) ==
    LET kept == {y \in Held(b) : ~q[y].err}
        mv == [y \in kept |-> RInt(MarketValue(b[y], y, q[y].price))]
        totalMV == RSumOver(mv, kept)
    IN  [kind |-> "alloc", err |-> "", basis |-> "market_value",
         totalInvested |-> RZero, totalMarketValue |-> totalMV,
         items |-> [y \in kept |->
             [shares |-> b[y].shares, invested |-> b[y].invested, marketValue |-> mv[y],
              weightPercent |-> WeightPercent(mv[y], totalMV)]]]

\* the switch on strings.ToLower(basis)
\* a bug: an unknown basis falls back to the invested basis
AllocResult_DefaultInvested(b, basis, q) ==
    IF ToLower(basis) = "market_value"
    THEN IF prices.nil THEN ErrorOut("alloc", "no PriceProvider configured for market_value basis")
         ELSE AllocMarketValue(b, q)
    ELSE AllocInvested(b)

\* a bug: the price provider is required before the switch on basis
AllocResult_ProviderRequired(b, basis, q) ==
    IF prices.nil THEN ErrorOut("alloc", "no PriceProvider configured for market_value basis")
    ELSE CASE ToLower(basis) \in {"", "invested"} -> AllocInvested(b)
           [] ToLower(basis) = "market_value" -> AllocMarketValue(b, q)
           [] OTHER -> ErrorOut("alloc", "unsupported basis")

AllocResult(b, basis, q) ==
    CASE ToLower(basis) \in {"", "invested"} -> AllocInvested(b)
      [] ToLower(basis) = "market_value" ->
            IF prices.nil THEN ErrorOut("alloc", "no PriceProvider configured for market_value basis")
            ELSE AllocMarketValue(b, q)
      [] OTHER -> ErrorOut("alloc", "unsupported basis")

(***************************************************************************)
(* Summary: the valuation of computeSummaryFromTxs.                        *)
(***************************************************************************)
\* a bug: the ratio is not scaled to a percentage
Percent_Unscaled(num, den) == IF RLt(RZero, den) THEN RDiv(num, den) ELSE RZero

Percent(num, den) == IF RLt(RZero, den) THEN RMul(RDiv(num, den), RInt(100)) ELSE RZero

\* a bug: the P&L stays market value less invested capital
SummaryResult_CostBasisPL(b, list, q) ==
    LET kept == {y \in Held(b) : ~q[y].err}
        mv == [y \in kept |-> RInt(MarketValue(b[y], y, q[y].price))]
        totalMV == RSumOver(mv, kept)
        totalInv == RSumOver([y \in kept |-> b[y].invested], kept)
        c == computeCashStats(list)
        pl == RSub(totalMV, totalInv)
    IN  [kind |-> "summary", err |-> "",
         totalInvested |-> totalInv, totalMarketValue |-> totalMV,
         totalUnrealizedPL |-> pl,
         totalUnrealizedPLPerc |-> Percent(pl, RInt(c.peakContrib)),
         totalUnrealizedPLPercCurrent |-> Percent(pl, RInt(c.effectiveIn)),
         balance |-> c.balance, cashDeposits |-> c.deposits,
         cashWithdrawals |-> c.withdrawals, inferredDeposits |-> c.inferred,
         effectiveCashIn |-> c.effectiveIn, effectiveCashInPeak |-> c.peakContrib,
         positions |-> [y \in kept |->
             [shares |-> b[y].shares, invested |-> b[y].invested, marketValue |-> mv[y],
              unrealizedPL |-> RSub(mv[y], b[y].invested),
              unrealizedPLPercent |-> Percent(RSub(mv[y], b[y].invested), b[y].invested),
              weightPercentByMV |-> WeightPercent(mv[y], totalMV)]]]

\* computeSummaryFromTxs: valuation, cash statistics and cash-based P&L
SummaryResult(b, list, q) ==
    LET kept == {y \in Held(b) : ~q[y].err}
        mv == [y \in kept |-> RInt(MarketValue(b[y], y, q[y].price))]
        totalMV == RSumOver(mv, kept)
        totalInv == RSumOver([y \in kept |-> b[y].invested], kept)
        c == computeCashStats(list)
        pl == RSub(RAdd(totalMV, RInt(c.balance)), RInt(c.effectiveIn))
    IN  [kind |-> "summary", err |-> "",
         totalInvested |-> totalInv, totalMarketValue |-> totalMV,
         totalUnrealizedPL |-> pl,
         totalUnrealizedPLPerc |-> Percent(pl, RInt(c.peakContrib)),
         totalUnrealizedPLPercCurrent |-> Percent(pl, RInt(c.effectiveIn)),
         balance |-> c.balance, cashDeposits |-> c.deposits,
         cashWithdrawals |-> c.withdrawals, inferredDeposits |-> c.inferred,
         effectiveCashIn |-> c.effectiveIn, effectiveCashInPeak |-> c.peakContrib,
         positions |-> [y \in kept |->
             [shares |-> b[y].shares, invested |-> b[y].invested, marketValue |-> mv[y],
              unrealizedPL |-> RSub(mv[y], b[y].invested),
              unrealizedPLPercent |-> Percent(RSub(mv[y], b[y].invested), b[y].invested),
              weightPercentByMV |-> WeightPercent(mv[y], totalMV)]]]

\* the ledger of ComputeSummaryAll: each portfolio's list, sorted by date,
\* folded in turn into one bucket map
RECURSIVE LedgerAll(_, _)
LedgerAll(b, lists) ==
    IF lists = <<>> THEN b
    ELSE LedgerAll(LedgerFold(b, insertionSort(Head(lists), "date"), 1), Tail(lists))

\* the sums over the portfolios of their cash statistics
RECURSIVE SumStats(_)
SumStats(lists) ==
    IF lists = <<>> THEN ZeroStats
    ELSE LET c == computeCashStats(Head(lists))
             r == SumStats(Tail(lists))
         IN  [r EXCEPT !.balance = @ + c.balance, !.deposits = @ + c.deposits,
                       !.withdrawals = @ + c.withdrawals, !.inferred = @ + c.inferred,
                       !.effectiveIn = @ + c.effectiveIn,
                       !.peakContrib = @ + c.peakContrib]

\* ComputeSummaryAll: the valuation of the bucket map b of all portfolios,
\* with the summed cash statistics c
SummaryAllResult(b, c, q) ==
    LET kept == {y \in Held(b) : ~q[y].err}
        mv == [y \in kept |-> RInt(MarketValue(b[y], y, q[y].price))]
        totalMV == RSumOver(mv, kept)
        totalInv == RSumOver([y \in kept |-> b[y].invested], kept)
        pl == RSub(RAdd(totalMV, RInt(c.balance)), RInt(c.effectiveIn))
    IN  [kind |-> "summaryAll", err |-> "",
         totalInvested |-> totalInv, totalMarketValue |-> totalMV,
         totalUnrealizedPL |-> pl,
         totalUnrealizedPLPerc |-> Percent(pl, RInt(c.peakContrib)),
         totalUnrealizedPLPercCurrent |-> Percent(pl, RInt(c.effectiveIn)),
         balance |-> c.balance, cashDeposits |-> c.deposits,
         cashWithdrawals |-> c.withdrawals, inferredDeposits |-> c.inferred,
         effectiveCashIn |-> c.effectiveIn, effectiveCashInPeak |-> c.peakContrib,
         positions |-> [y \in kept |->
             [shares |-> b[y].shares, invested |-> b[y].invested, marketValue |-> mv[y],
              unrealizedPL |-> RSub(mv[y], b[y].invested),
              unrealizedPLPercent |-> Percent(RSub(mv[y], b[y].invested), b[y].invested),
              weightPercentByMV |-> WeightPercent(mv[y], totalMV)]]]

MaxFirstPortfolio == 1    \* most transactions of the first of two portfolios

\* the transactions txs as stored in two portfolios: the first n and the rest
Portfolios(n) == <<SubSeq(txs, 1, n), SubSeq(txs, n + 1, Len(txs))>>

(***************************************************************************)
(* The ledger specification: one call of computeAllocationsFromTxs or of   *)
(* ComputeSummary's computation, step by step.                             *)
(***************************************************************************)
LedgerPool ==
    {Tmpl("buy", "AMZN", "TWD", 10, -1000),
     Tmpl("sell", "AMZN", "TWD", 10, 1200),
     Tmpl("sell", "AMZN", "TWD", 3, 400),
     Tmpl("buy", OptionSymbol, "USD", 1, 10),
     Tmpl("dividend", "AMZN", "TWD", 0, 50),
     Tmpl("cash", "", "TWD", 0, 500)}

LedgerInit ==
    /\ refCCY = "TWD"
    /\ exchanger = Answering([r |-> 30, err |-> FALSE])
    /\ prices \in {NoProvider, SomeProvider}
    /\ quotes = NoQuotes
    /\ txs \in TxLists(LedgerPool, MaxLedgerTxs)
    /\ pc = "idle"
    /\ xs = <<>>
    /\ i = 0
    /\ st = ZeroSt
    /\ cs = ZeroStats
    /\ bucket = NoBucket
    /\ out = NoOut
    /\ rateFrom = ""
    /\ rateOut = 0
    /\ bt = ZeroBt
    /\ allocBasis = ""
    /\ pv = ZeroPv
    /\ hl = ZeroHl
    /\ store = ZeroStore
    /\ cp = ZeroCp
    /\ repo = ZeroRepo

cashVars == <<xs, st, cs>>

\* computeAllocationsFromTxs sorts the slice it is given, in place
AllocSort ==
    /\ pc = "idle"
    /\ txs' = insertionSort(txs, "date")
    /\ bucket' = NoBucket
    /\ i' = 1
    /\ pc' = "allocLoop"
    /\ UNCHANGED <<envVars, cashVars, out, quotes, rateVars, bt, allocBasis, pv, hl, store, cp, repo>>

AllocLoop ==
    /\ pc = "allocLoop"
    /\ i <= Len(txs)
    /\ bucket' = LedgerStep(bucket, txs[i])
    /\ i' = i + 1
    /\ UNCHANGED <<envVars, txs, pc, cashVars, out, quotes, rateVars, bt, allocBasis, pv, hl, store, cp, repo>>

\* the switch on basis and the return
AllocReturn ==
    /\ pc = "allocLoop"
    /\ i > Len(txs)
    /\ \E arg \in Bases :
          /\ allocBasis' = arg
          /\ IF ToLower(arg) = "market_value" /\ ~prices.nil
             THEN \E q \in QuotesFor(Held(bucket)) :
                     /\ quotes' = q
                     /\ out' = AllocResult(bucket, arg, q)
             ELSE /\ quotes' = quotes
                  /\ out' = AllocResult(bucket, arg, quotes)
    /\ pc' = "allocDone"
    /\ UNCHANGED <<envVars, txs, i, cashVars, bucket, rateVars, bt, pv, hl, store, cp, repo>>

\* ComputeSummary refuses to run without a price provider; otherwise
\* computeSummaryFromTxs sorts the slice it is given, in place
SummarySort ==
    /\ pc = "idle"
    /\ IF prices.nil
       THEN /\ out' = ErrorOut("summary", "no PriceProvider configured (required for summary)")
            /\ pc' = "sumDone"
            /\ UNCHANGED <<txs, i, bucket>>
       ELSE /\ txs' = insertionSort(txs, "date")
            /\ bucket' = NoBucket
            /\ i' = 1
            /\ pc' = "sumLoop"
            /\ out' = out
    /\ UNCHANGED <<envVars, cashVars, quotes, rateVars, bt, allocBasis, pv, hl, store, cp, repo>>

SummaryLoop ==
    /\ pc = "sumLoop"
    /\ i <= Len(txs)
    /\ bucket' = LedgerStep(bucket, txs[i])
    /\ i' = i + 1
    /\ UNCHANGED <<envVars, txs, pc, cashVars, out, quotes, rateVars, bt, allocBasis, pv, hl, store, cp, repo>>

\* valuation, cash statistics and the return
SummaryReturn ==
    /\ pc = "sumLoop"
    /\ i > Len(txs)
    /\ \E q \in QuotesFor(Held(bucket)) :
          /\ quotes' = q
          /\ out' = SummaryResult(bucket, txs, q)
    /\ pc' = "sumDone"
    /\ UNCHANGED <<envVars, txs, i, cashVars, bucket, rateVars, bt, allocBasis, pv, hl, store, cp, repo>>

\* ComputeSummaryAll over two portfolios: the lists it works on are fresh
\* copies made by the repository
SummaryAll ==
    /\ pc = "idle"
    /\ IF prices.nil
       THEN /\ out' = ErrorOut("summaryAll", "no PriceProvider configured (required for summary)")
            /\ UNCHANGED <<bucket, quotes>>
       ELSE \E n \in {m \in 0..MaxFirstPortfolio : m <= Len(txs)} :
               LET b == LedgerAll(NoBucket, Portfolios(n))
                   c == SumStats(Portfolios(n))
               IN  \E q \in QuotesFor(Held(b)) :
                      /\ bucket' = b
                      /\ quotes' = q
                      /\ out' = SummaryAllResult(b, c, q)
    /\ pc' = "sumAllDone"
    /\ UNCHANGED <<envVars, txs, i, cashVars, rateVars, bt, allocBasis, pv, hl, store, cp, repo>>

LedgerNext ==
    \/ AllocSort \/ AllocLoop \/ AllocReturn
    \/ SummarySort \/ SummaryLoop \/ SummaryReturn
    \/ SummaryAll

SpecLedger == LedgerInit /\ [][LedgerNext]_vars

(***************************************************************************)
(* Backtest Simulator: computeBacktestFromTxs.                             *)
(***************************************************************************)
MaxBacktestTxs == 2    \* longest transaction list of the backtest specification

\* time.Now(): the backtest runs later on the last day a transaction is dated
Today == LastDate

\* answers of GetPrice, GetPriceOn and GetPriceOnBasis to the backtest
BacktestPrices ==
    {[price |-> 100, err |-> FALSE], [price |-> 50, err |-> FALSE],
     [price |-> 0, err |-> TRUE]}

\* a provider quoting 100 on the days of the history and 110 or 100 now,
\* whose lookups may fail or answer 0 without an error
RisingPrices ==
    {[price |-> 100, err |-> FALSE], [price |-> 110, err |-> FALSE],
     [price |-> 0, err |-> TRUE], [price |-> 0, err |-> FALSE]}

\* a configured provider, history-capable or not, that gives the answers of answers
Quoting(history, answers) == [nil |-> FALSE, history |-> history, answers |-> answers]

\* the answers the configured provider may give to one lookup
ProviderAnswers == IF "answers" \in DOMAIN prices THEN prices.answers ELSE BacktestPrices

\* err == nil && p > 0
Usable(a) == ~a.err /\ a.price > 0

\* a bug: a current price of 0 answered without an error is accepted
CurrentPriceFails_ErrorOnly(a) == a.err

\* err != nil || curPrice <= 0
CurrentPriceFails(a) == a.err \/ a.price <= 0

BacktestEvent(e, kind) == [when |-> e.when, kind |-> kind, amount |-> e.amount]

RECURSIVE MapEvents(_, _)
MapEvents(es, kind) ==
    IF es = <<>> THEN <<>>
    ELSE <<BacktestEvent(Head(es), kind)>> \o MapEvents(Tail(es), kind)

\* a bug: the three lists are joined and left as they are
BacktestEvents_Unsorted(c) ==
    MapEvents(c.depositEvents, "deposit")
      \o MapEvents(c.inferredEvents, "deposit")
      \o MapEvents(c.withdrawalEvents, "withdrawal")

\* evs: deposits, inferred deposits and withdrawals, sorted
BacktestEvents(c) ==
    insertionSort(MapEvents(c.depositEvents, "deposit")
                    \o MapEvents(c.inferredEvents, "deposit")
                    \o MapEvents(c.withdrawalEvents, "withdrawal"), "event")

\* a bug: a withdrawal sells shares that are not held
AltShares_Unclamped(shares, e, price, mult, r) ==
    LET amtSym == RDiv(RInt(e.amount), RInt(r))
        denom == IF price * mult <= 0 THEN price ELSE price * mult
        qty == RDiv(amtSym, RInt(denom))
    IN  IF e.kind = "deposit" THEN RAdd(shares, qty)
        ELSE IF e.kind = "withdrawal" THEN RSub(shares, qty)
        ELSE shares

\* the switch on e.kind: the shares of the alternate asset after event e
AltShares(shares, e, price, mult, r) ==
    LET amtSym == RDiv(RInt(e.amount), RInt(r))
        denom == IF price * mult <= 0 THEN price ELSE price * mult
        qty == RDiv(amtSym, RInt(denom))
    IN  IF e.kind = "deposit" THEN RAdd(shares, qty)
        ELSE IF e.kind = "withdrawal"
             THEN IF RLt(RSub(shares, qty), RZero) THEN RZero ELSE RSub(shares, qty)
             ELSE shares

\* the events of day d, in the order of evs, applied at the day's price
RECURSIVE AltDayShares(_, _, _, _, _, _)
AltDayShares(shares, evs, d, price, mult, r) ==
    IF evs = <<>> THEN shares
    ELSE AltDayShares(IF Head(evs).when = d
                      THEN AltShares(shares, Head(evs), price, mult, r)
                      ELSE shares,
                      Tail(evs), d, price, mult, r)

\* an equity left in the currency of the symbol
EquityRef_SymbolCurrency(shares, price, mult, r) == RMul(shares, RInt(price * mult))

\* shares * price * mult * rateSymToRef
EquityRef(shares, price, mult, r) == RMul(shares, RInt(price * mult * r))

\* a bug: the drop of the latest point replaces the tracked maximum drop
UpdateDraw_LatestDrop(peak, maxDrop, eq) ==
    LET pk == IF RLt(peak, eq) THEN eq ELSE peak
    IN  [peak |-> pk,
         maxDrop |-> IF RLt(RZero, pk)
                     THEN RMul(RSub(RDiv(eq, pk), RInt(1)), RInt(100))
                     ELSE maxDrop]

\* the drawdown update of one equity point: the running peak and the
\* maximum percentage drop from it
UpdateDraw(peak, maxDrop, eq) ==
    LET pk == IF RLt(peak, eq) THEN eq ELSE peak
    IN  [peak |-> pk,
         maxDrop |-> IF RLt(RZero, pk)
                     THEN LET dd == RMul(RSub(RDiv(eq, pk), RInt(1)), RInt(100))
                          IN  IF RLt(dd, maxDrop) THEN dd ELSE maxDrop
                     ELSE maxDrop]

\* holdings of the replay of the actual portfolio
ZeroHolding == [shares |-> 0, ccy |-> ""]

HoldingOf(h, sym) == IF sym \in DOMAIN h THEN h[sym] ELSE ZeroHolding

\* a.ccy after a buy or sell in currency ccy
HoldingCcy(a, ccy) == IF ccy # "" THEN ToUpper(ccy) ELSE a.ccy

\* the switch "Apply holdings change"
HoldingsAfter(h, tx) ==
    LET a == HoldingOf(h, tx.sym)
        put(v) == [y \in DOMAIN h \cup {tx.sym} |-> IF y = tx.sym THEN v ELSE h[y]]
    IN  CASE tx.tt = "buy" ->
                put([shares |-> a.shares + tx.shares, ccy |-> HoldingCcy(a, tx.ccy)])
          [] tx.tt = "sell" ->
                put([shares |-> Max(a.shares - tx.shares, 0), ccy |-> HoldingCcy(a, tx.ccy)])
          [] OTHER -> h

\* a bug: the replay applies the delta without the inferred cash
ReplayStep_NoInject(b, tx) ==
    [b EXCEPT !.holdings = HoldingsAfter(b.holdings, tx), !.cash = b.cash + Delta(tx)]

\* the body of the replay loop between the day change and the close of the
\* day: the cash delta, the inferred cash, the holdings and the cash
ReplayStep(b, tx) ==
    LET delta == Delta(tx)
        cash == IF b.cash + delta < 0 THEN b.cash + (0 - (b.cash + delta)) ELSE b.cash
    IN  [b EXCEPT !.holdings = HoldingsAfter(b.holdings, tx), !.cash = cash + delta]

\* the symbols computeEquityAt prices
HeldNow(h) == {y \in DOMAIN h : h[y].shares > 0}

\* those of them getOn2 has to ask the provider about
Asked(b, day) == {y \in HeldNow(b.holdings) : <<y, day>> \notin DOMAIN b.priceCache}

NoAnswer == [price |-> 0, err |-> TRUE]

\* the answers a provider may give when the symbols of asked are priced
AnswersFor(asked) ==
    {q \in [Symbols -> ProviderAnswers] : \A y \in Symbols \ asked : q[y] = NoAnswer}

\* getOn2: the cached price, or the provider's answer
getOn2(b, sym, day, q) ==
    IF <<sym, day>> \in DOMAIN b.priceCache
    THEN [price |-> b.priceCache[<<sym, day>>], err |-> FALSE]
    ELSE q[sym]

\* priceCache after the lookups of computeEquityAt(day)
CacheAfter(b, day, q) ==
    LET new == {<<y, day>> : y \in {z \in Asked(b, day) : Usable(q[z])}}
    IN  [key \in DOMAIN b.priceCache \cup new |->
            IF key \in DOMAIN b.priceCache THEN b.priceCache[key] ELSE q[key[1]].price]

computeEquityAt(b, day, q) ==
    LET priced == {y \in HeldNow(b.holdings) : Usable(getOn2(b, y, day, q))}
        value == [y \in priced |->
                    RInt(b.holdings[y].shares * getOn2(b, y, day, q).price
                           * multiplierForSymbol(y) * rate(b.holdings[y].ccy))]
    IN  RAdd(RInt(b.cash), RSumOver(value, priced))

\* updateDraw(day) of the replay
updateDraw(b, day, q) ==
    LET e == computeEquityAt(b, day, q)
        u == UpdateDraw(b.peak, b.currentMaxDrop, e)
    IN  [b EXCEPT !.eq = e, !.peak = u.peak, !.currentMaxDrop = u.maxDrop,
                  !.priceCache = CacheAfter(b, day, q)]

\* the earliest day of an event
StartDay(evs) ==
    CHOOSE d \in {evs[j].when : j \in 1..Len(evs)} :
        \A j \in 1..Len(evs) : d <= evs[j].when

(***************************************************************************)
(* The backtest specification: one call of computeBacktestFromTxs, step by *)
(* step.                                                                   *)
(***************************************************************************)
BacktestPool ==
    {<<Tmpl("cash", "", "TWD", 0, 500), FirstDate>>,
     <<Tmpl("cash", "", "TWD", 0, -100), LastDate>>,
     <<Tmpl("buy", "AMZN", "TWD", 10, -800), FirstDate>>,
     <<Tmpl("buy", "AMZN", "TWD", 10, -800), LastDate>>,
     <<Tmpl("sell", "AMZN", "TWD", 10, 1200), LastDate>>}

BacktestSymbols == {"AMZN"}
BacktestCurrencies == {"USD"}

\* a single deposit of 1000 in USD
DepositPool == {<<Tmpl("cash", "", "USD", 0, 1000), FirstDate>>}

\* the calls modelled: a portfolio in TWD measured against a symbol quoted in
\* USD, and one deposit in USD with USD the reference currency
BacktestInit ==
    /\ exchanger = Answering([r |-> 2, err |-> FALSE])
    /\ \/ /\ refCCY = "TWD"
          /\ prices \in {NoProvider, SomeProvider, HistoryCapable}
          /\ txs \in DatedTxLists(BacktestPool, MaxBacktestTxs)
       \/ /\ refCCY = "USD"
          /\ prices \in {Quoting(h, RisingPrices) : h \in BOOLEAN}
          /\ txs \in DatedTxLists(DepositPool, 1)
    /\ quotes = NoQuotes
    /\ pc = "idle"
    /\ xs = <<>>
    /\ i = 0
    /\ st = ZeroSt
    /\ cs = ZeroStats
    /\ bucket = NoBucket
    /\ out = NoOut
    /\ rateFrom = ""
    /\ rateOut = 0
    /\ bt = ZeroBt
    /\ allocBasis = ""
    /\ pv = ZeroPv
    /\ hl = ZeroHl
    /\ store = ZeroStore
    /\ cp = ZeroCp
    /\ repo = ZeroRepo

\* entry: the provider check, the cash schedule, the events and the choice
\* between the daily loop and the loop over events
BtStart ==
    /\ pc = "idle"
    /\ IF prices.nil
       THEN /\ out' = ErrorOut("backtest", "no PriceProvider configured (required for backtest)")
            /\ pc' = "btDone"
            /\ UNCHANGED <<cs, bt>>
       ELSE \E sym \in BacktestSymbols, ccy \in BacktestCurrencies :
               LET c == computeCashStats(txs)
                   evs == BacktestEvents(c)
               IN  /\ cs' = c
                   /\ bt' = [ZeroBt EXCEPT
                               !.symbol = sym, !.symbolCCY = ccy, !.evs = evs,
                               !.mult = multiplierForSymbol(sym),
                               !.rateSymToRef = IF rate(ccy) <= 0 THEN 1 ELSE rate(ccy),
                               !.d = IF Len(evs) > 0 THEN StartDay(evs) ELSE 0,
                               !.k = 1]
                   /\ pc' = IF prices.history /\ Len(evs) > 0 THEN "altDay" ELSE "altEvent"
                   /\ out' = out
    /\ UNCHANGED <<envVars, quotes, txs, xs, i, st, bucket, rateVars, allocBasis, pv, hl, store, cp, repo>>

\* one day of the daily loop
AltDay ==
    /\ pc = "altDay"
    /\ bt.d <= Today
    /\ \E a \in ProviderAnswers :
          IF ~Usable(a)
          THEN bt' = [bt EXCEPT !.d = @ + 1]
          ELSE LET sh == AltDayShares(bt.shares, bt.evs, bt.d, a.price, bt.mult, bt.rateSymToRef)
                   e == EquityRef(sh, a.price, bt.mult, bt.rateSymToRef)
                   u == UpdateDraw(bt.altPeak, bt.altMaxDrop, e)
               IN  bt' = [bt EXCEPT !.shares = sh, !.price = a.price,
                                    !.equityRef = e, !.altPeak = u.peak,
                                    !.altMaxDrop = u.maxDrop, !.d = @ + 1]
    /\ UNCHANGED <<envVars, quotes, txs, pc, xs, i, st, cs, bucket, out, rateVars, allocBasis, pv, hl, store, cp, repo>>

\* one event of the loop over events
AltEvent ==
    /\ pc = "altEvent"
    /\ bt.k <= Len(bt.evs)
    /\ \E a \in ProviderAnswers :
          IF ~Usable(a)
          THEN bt' = [bt EXCEPT !.k = @ + 1]
          ELSE LET sh == AltShares(bt.shares, bt.evs[bt.k], a.price, bt.mult, bt.rateSymToRef)
                   e == EquityRef(sh, a.price, bt.mult, bt.rateSymToRef)
                   u == UpdateDraw(bt.altPeak, bt.altMaxDrop, e)
               IN  bt' = [bt EXCEPT !.shares = sh, !.price = a.price,
                                    !.equityRef = e, !.altPeak = u.peak,
                                    !.altMaxDrop = u.maxDrop, !.k = @ + 1]
    /\ UNCHANGED <<envVars, quotes, txs, pc, xs, i, st, cs, bucket, out, rateVars, allocBasis, pv, hl, store, cp, repo>>

\* after the loop: the current price, the final point of the alternate
\* curve, the summary of the actual portfolio and the sorted copy the
\* replay walks
AltFinal ==
    /\ \/ pc = "altDay" /\ bt.d > Today
       \/ pc = "altEvent" /\ bt.k > Len(bt.evs)
    /\ \E a \in ProviderAnswers :
          IF CurrentPriceFails(a)
          THEN /\ out' = ErrorOut("backtest", "failed to price backtest symbol")
               /\ bt' = [bt EXCEPT !.curPrice = a.price, !.curErr = a.err]
               /\ pc' = "btDone"
               /\ UNCHANGED <<quotes, txs, xs, i, bucket>>
          ELSE LET e == EquityRef(bt.shares, a.price, bt.mult, bt.rateSymToRef)
                   u == UpdateDraw(bt.altPeak, bt.altMaxDrop, e)
                   pl == RSub(e, RInt(cs.effectiveIn))
                   sorted == insertionSort(txs, "date")
                   b == LedgerFold(NoBucket, sorted, 1)
               IN  \E q \in QuotesFor(Held(b)) :
                      LET sum == SummaryResult(b, sorted, q)
                      IN  /\ txs' = sorted
                          /\ bucket' = b
                          /\ quotes' = q
                          /\ bt' = [bt EXCEPT
                                      !.curPrice = a.price, !.curErr = FALSE,
                                      !.altEquity = e, !.altPeak = u.peak,
                                      !.altMaxDrop = u.maxDrop, !.altPL = pl,
                                      !.altPct = Percent(pl, RInt(cs.peakContrib)),
                                      !.sum = [totalUnrealizedPL |-> sum.totalUnrealizedPL,
                                               totalUnrealizedPLPerc |-> sum.totalUnrealizedPLPerc]]
                          /\ xs' = insertionSort(sorted, "cash")
                          /\ i' = 1
                          /\ pc' = IF Len(sorted) = 0 THEN "curAsOf" ELSE "curTop"
                          /\ out' = out
    /\ UNCHANGED <<envVars, st, cs, rateVars, allocBasis, pv, hl, store, cp, repo>>

\* head of one iteration of the replay: a change of day closes the previous day
CurTop ==
    /\ pc = "curTop"
    /\ i <= Len(xs)
    /\ IF ~bt.haveDay \/ bt.curDay # xs[i].date
       THEN IF bt.haveDay
            THEN \E q \in AnswersFor(Asked(bt, bt.curDay)) :
                    bt' = [updateDraw(bt, bt.curDay, q) EXCEPT !.curDay = xs[i].date]
            ELSE bt' = [bt EXCEPT !.curDay = xs[i].date, !.haveDay = TRUE]
       ELSE bt' = bt
    /\ pc' = "curBody"
    /\ UNCHANGED <<envVars, quotes, txs, xs, i, st, cs, bucket, out, rateVars, allocBasis, pv, hl, store, cp, repo>>

\* the rest of the iteration up to the close of the last day
CurBody ==
    /\ pc = "curBody"
    /\ bt' = ReplayStep(bt, xs[i])
    /\ IF i = Len(xs)
       THEN pc' = "curClose" /\ i' = i
       ELSE pc' = "curTop" /\ i' = i + 1
    /\ UNCHANGED <<envVars, quotes, txs, xs, st, cs, bucket, out, rateVars, allocBasis, pv, hl, store, cp, repo>>

\* the last transaction closes its day
CurClose ==
    /\ pc = "curClose"
    /\ \E q \in AnswersFor(Asked(bt, bt.curDay)) : bt' = updateDraw(bt, bt.curDay, q)
    /\ i' = i + 1
    /\ pc' = "curAsOf"
    /\ UNCHANGED <<envVars, quotes, txs, xs, st, cs, bucket, out, rateVars, allocBasis, pv, hl, store, cp, repo>>

\* the as-of evaluation and the response
CurAsOf ==
    /\ pc = "curAsOf"
    /\ \E q \in AnswersFor(IF bt.haveDay THEN Asked(bt, Today) ELSE {}) :
          LET b == IF bt.haveDay THEN updateDraw(bt, Today, q) ELSE bt
          IN  /\ bt' = b
              /\ out' = [kind |-> "backtest", err |-> "", symbol |-> b.symbol,
                         altPL |-> b.altPL, altPLPercent |-> b.altPct,
                         altMaxDropPercent |-> b.altMaxDrop,
                         currentPL |-> b.sum.totalUnrealizedPL,
                         currentPLPercent |-> b.sum.totalUnrealizedPLPerc,
                         currentMaxDropPercent |-> b.currentMaxDrop]
    /\ pc' = "btDone"
    /\ UNCHANGED <<envVars, quotes, txs, xs, i, st, cs, bucket, rateVars, allocBasis, pv, hl, store, cp, repo>>

BacktestNext ==
    BtStart \/ AltDay \/ AltEvent \/ AltFinal \/ CurTop \/ CurBody \/ CurClose \/ CurAsOf

SpecBacktest == BacktestInit /\ [][BacktestNext]_vars

(***************************************************************************)
(* The event specification: computeBacktestFromTxs up to the result of the *)
(* alternate asset, over portfolios whose deposits and withdrawals fall on *)
(* either day.                                                             *)
(***************************************************************************)
MaxEventTxs == 2    \* longest transaction list of the event specification

EventPool ==
    {<<Tmpl("cash", "", "TWD", 0, 500), LastDate>>,
     <<Tmpl("cash", "", "TWD", 0, -100), FirstDate>>,
     <<Tmpl("cash", "", "TWD", 0, -100), LastDate>>,
     <<Tmpl("buy", "AMZN", "TWD", 10, -800), FirstDate>>}

EventInit ==
    /\ refCCY = "TWD"
    /\ exchanger = Answering([r |-> 2, err |-> FALSE])
    /\ prices \in {SomeProvider, HistoryCapable}
    /\ txs \in DatedTxLists(EventPool, MaxEventTxs)
    /\ quotes = NoQuotes
    /\ pc = "idle"
    /\ xs = <<>>
    /\ i = 0
    /\ st = ZeroSt
    /\ cs = ZeroStats
    /\ bucket = NoBucket
    /\ out = NoOut
    /\ rateFrom = ""
    /\ rateOut = 0
    /\ bt = ZeroBt
    /\ allocBasis = ""
    /\ pv = ZeroPv
    /\ hl = ZeroHl
    /\ store = ZeroStore
    /\ cp = ZeroCp
    /\ repo = ZeroRepo

EventNext == BtStart \/ AltDay \/ AltEvent \/ AltFinal

SpecEvents == EventInit /\ [][EventNext]_vars

(***************************************************************************)
(* The rate specification: direct calls of rate on a service constructed   *)
(* with any exchanger.                                                      *)
(***************************************************************************)
\* the reference currencies of a service (NewTransactionService, WithRef)
RefCurrencies == {"TWD", "USD"}

RateInit ==
    /\ refCCY \in RefCurrencies
    /\ exchanger \in {NoExchanger} \cup {Answering(res) : res \in ExchangerResults}
    /\ prices = NoProvider
    /\ quotes = NoQuotes
    /\ txs = <<>>
    /\ pc = "idle"
    /\ xs = <<>>
    /\ i = 0
    /\ st = ZeroSt
    /\ cs = ZeroStats
    /\ bucket = NoBucket
    /\ out = NoOut
    /\ rateFrom = ""
    /\ rateOut = 0
    /\ bt = ZeroBt
    /\ allocBasis = ""
    /\ pv = ZeroPv
    /\ hl = ZeroHl
    /\ store = ZeroStore
    /\ cp = ZeroCp
    /\ repo = ZeroRepo

\* one call s.rate(from)
RateCall ==
    /\ pc \in {"idle", "rated"}
    /\ \E from \in CurrencyStrings :
          /\ rateFrom' = from
          /\ rateOut' = rate(from)
    /\ pc' = "rated"
    /\ UNCHANGED <<envVars, quotes, txs, xs, i, st, cs, bucket, out, bt, allocBasis, pv, hl, store, cp, repo>>

RateNext == RateCall

SpecRate == RateInit /\ [][RateNext]_vars

(***************************************************************************)
(* Price providers: YahooProvider.GetPrice, YahooProvider.GetPriceOn and   *)
(* AlphaVantageProvider.GetPrice, called concurrently for one symbol.  A   *)
(* call reads its cache under the read lock, releases it, fetches upstream *)
(* on a miss with no lock held, and stores the answer under the write      *)
(* lock.  Time is counted in ticks.                                        *)
(***************************************************************************)
MaxCallers == 2     \* concurrent callers of the provider
MaxClock == 2       \* last tick of the clock
MaxFetches == 3     \* most upstream fetches followed

\* p.ttl, in ticks
TTL == 2

Callers == 1..MaxCallers

\* GetPrice reads p.cache, GetPriceOn reads p.hist
Methods == {"GetPrice", "GetPriceOn"}

NoEntry == [present |-> FALSE, fetched |-> 0]

\* ok && time.Since(c.fetched) < p.ttl
CacheHit(c, now) == c.present /\ now - c.fetched < TTL

engineVars ==
    <<refCCY, exchanger, prices, quotes, txs, pc, xs, i, st, cs, bucket, out,
      rateFrom, rateOut, bt, allocBasis, hl, store, cp, repo>>

ProviderInit ==
    /\ refCCY = "TWD"
    /\ exchanger = NoExchanger
    /\ prices = HistoryCapable
    /\ quotes = NoQuotes
    /\ txs = <<>>
    /\ pc = "idle"
    /\ xs = <<>>
    /\ i = 0
    /\ st = ZeroSt
    /\ cs = ZeroStats
    /\ bucket = NoBucket
    /\ out = NoOut
    /\ rateFrom = ""
    /\ rateOut = 0
    /\ bt = ZeroBt
    /\ allocBasis = ""
    /\ pv = [ZeroPv EXCEPT !.cache = [m \in Methods |-> NoEntry],
                           !.pc = [c \in Callers |-> "idle"],
                           !.method = [c \in Callers |-> "GetPrice"]]
    /\ hl = ZeroHl
    /\ store = ZeroStore
    /\ cp = ZeroCp
    /\ repo = ZeroRepo

\* caller c enters GetPrice or GetPriceOn
PvCall(c) ==
    /\ pv.pc[c] = "idle"
    /\ \E m \in Methods :
          pv' = [pv EXCEPT !.pc[c] = "rlock", !.method[c] = m]
    /\ UNCHANGED engineVars

\* p.mu.RLock()
PvRLock(c) ==
    /\ pv.pc[c] = "rlock"
    /\ pv.writer = 0
    /\ pv' = [pv EXCEPT !.readers = @ \cup {c}, !.pc[c] = "check"]
    /\ UNCHANGED engineVars

\* the cache test and p.mu.RUnlock(): a hit returns, a miss goes upstream
PvCheck(c) ==
    /\ pv.pc[c] = "check"
    /\ pv' = [pv EXCEPT !.readers = @ \ {c},
                        !.pc[c] = IF CacheHit(pv.cache[pv.method[c]], pv.now)
                                  THEN "idle" ELSE "fetch"]
    /\ UNCHANGED engineVars

\* p.cli.Do(req) and the decoding of the response: an answer or an error
PvFetch(c) ==
    /\ pv.pc[c] = "fetch"
    /\ Len(pv.fetches) < MaxFetches
    /\ \E ok \in BOOLEAN :
          pv' = [pv EXCEPT
                   !.fetches = Append(@, [method |-> pv.method[c], at |-> pv.now, ok |-> ok]),
                   !.pc[c] = IF ok THEN "lock" ELSE "idle"]
    /\ UNCHANGED engineVars

\* p.mu.Lock()
PvLock(c) ==
    /\ pv.pc[c] = "lock"
    /\ pv.writer = 0 /\ pv.readers = {}
    /\ pv' = [pv EXCEPT !.writer = c, !.pc[c] = "store"]
    /\ UNCHANGED engineVars

\* the store of the answer, fetched: time.Now(), and p.mu.Unlock()
PvStore(c) ==
    /\ pv.pc[c] = "store"
    /\ pv' = [pv EXCEPT !.cache[pv.method[c]] = [present |-> TRUE, fetched |-> pv.now],
                        !.writer = 0, !.pc[c] = "idle"]
    /\ UNCHANGED engineVars

\* time passes
PvTick ==
    /\ pv.now < MaxClock
    /\ pv' = [pv EXCEPT !.now = @ + 1]
    /\ UNCHANGED engineVars

ProviderNext ==
    \/ \E c \in Callers :
          PvCall(c) \/ PvRLock(c) \/ PvCheck(c) \/ PvFetch(c) \/ PvLock(c) \/ PvStore(c)
    \/ PvTick

SpecProvider == ProviderInit /\ [][ProviderNext]_vars

(***************************************************************************)
(* Historical prices: lookupHistClose and lookupHistOpen over the daily    *)
(* series of a symbol.  Days are integers; a series holds, per index, the  *)
(* day, its close (> 0, as GetPriceOn stores only such days) and its open  *)
(* (0 when missing).                                                       *)
(***************************************************************************)
MaxDay == 3    \* last day a series may hold

HistDays == 1..MaxDay

\* the closes and opens of the upstream answer
HistCloses == {10, 20}
HistOpens == {0, 5}

\* the days of S in ascending order
RECURSIVE AscendingSeq(_)
AscendingSeq(S) ==
    IF S = {} THEN <<>>
    ELSE LET d == CHOOSE x \in S : \A y \in S : x <= y
         IN  <<d>> \o AscendingSeq(S \ {d})

\* the series GetPriceOn builds: days in the order of the upstream
\* timestamps, which are chronological
HistSeries ==
    UNION {{[days |-> AscendingSeq(S), closes |-> c, opens |-> o] :
               c \in [1..Cardinality(S) -> HistCloses],
               o \in [1..Cardinality(S) -> HistOpens]} :
           S \in SUBSET HistDays}

ErrPriceNotFound == "price not found"

\* a bug: the scan runs from the first day and stops at the earliest day
\* that is not after the date
HistIndex_Earliest(days, date) ==
    IF \E n \in 1..Len(days) : days[n] <= date
    THEN CHOOSE n \in 1..Len(days) :
            days[n] <= date /\ \A m \in 1..(n - 1) : ~(days[m] <= date)
    ELSE 0

\* the scan from the last index down: the first index met whose day is not
\* after date, 0 (idx < 0 in the code) when there is none
RECURSIVE HistScan(_, _, _)
HistScan(days, date, n) ==
    IF n < 1 THEN 0
    ELSE IF ~(days[n] > date) THEN n
    ELSE HistScan(days, date, n - 1)

HistIndex(days, date) == HistScan(days, date, Len(days))

lookupHistClose(series, date) ==
    LET idx == HistIndex(series.days, date)
    IN  IF idx = 0 THEN [price |-> 0, asOf |-> 0, err |-> ErrPriceNotFound]
        ELSE [price |-> series.closes[idx], asOf |-> series.days[idx], err |-> ""]

lookupHistOpen(series, date) ==
    LET idx == HistIndex(series.days, date)
        o == IF idx # 0 /\ Len(series.opens) = Len(series.days) THEN series.opens[idx] ELSE 0
    IN  IF idx = 0 THEN [price |-> 0, asOf |-> 0, err |-> ErrPriceNotFound]
        ELSE IF o > 0 THEN [price |-> o, asOf |-> series.days[idx], err |-> ""]
        ELSE [price |-> series.closes[idx], asOf |-> series.days[idx], err |-> ""]

HistInit ==
    /\ refCCY = "TWD"
    /\ exchanger = NoExchanger
    /\ prices = HistoryCapable
    /\ quotes = NoQuotes
    /\ txs = <<>>
    /\ pc = "idle"
    /\ xs = <<>>
    /\ i = 0
    /\ st = ZeroSt
    /\ cs = ZeroStats
    /\ bucket = NoBucket
    /\ out = NoOut
    /\ rateFrom = ""
    /\ rateOut = 0
    /\ bt = ZeroBt
    /\ allocBasis = ""
    /\ pv = ZeroPv
    /\ \E series \in HistSeries, date \in 0..(MaxDay + 1) :
          hl = [ZeroHl EXCEPT !.hs = series, !.date = date]
    /\ store = ZeroStore
    /\ cp = ZeroCp
    /\ repo = ZeroRepo

histFrame ==
    <<refCCY, exchanger, prices, quotes, txs, pc, xs, i, st, cs, bucket, out,
      rateFrom, rateOut, bt, allocBasis, pv, store, cp, repo>>

\* one call lookupHistClose(hs, date)
LookupClose ==
    /\ hl.pc = "idle"
    /\ LET r == lookupHistClose(hl.hs, hl.date)
       IN  hl' = [hl EXCEPT !.pc = "done", !.basis = "close",
                            !.price = r.price, !.asOf = r.asOf, !.err = r.err]
    /\ UNCHANGED histFrame

\* one call lookupHistOpen(hs, date)
LookupOpen ==
    /\ hl.pc = "idle"
    /\ LET r == lookupHistOpen(hl.hs, hl.date)
       IN  hl' = [hl EXCEPT !.pc = "done", !.basis = "open",
                            !.price = r.price, !.asOf = r.asOf, !.err = r.err]
    /\ UNCHANGED histFrame

HistNext == LookupClose \/ LookupOpen

SpecHist == HistInit /\ [][HistNext]_vars

(***************************************************************************)
(* Transactions of one portfolio: CreateOne, CreateBatch and Update of     *)
(* TransactionService over a repository.  A stored transaction keeps the   *)
(* fields the conversion of the DTO sets; its id is the number of the      *)
(* creation.                                                               *)
(***************************************************************************)
MaxStored == 2    \* most transactions the repository holds

\* the payloads a client may send: trade_type and symbol as sent, the date
\* well-formed or not, and the three magnitudes
DTOs ==
    [symbol : {"AMZN", ""}, tradeType : {"buy", "Cash", "swap"}, dateOK : BOOLEAN,
     shares : {-1, 10}, price : {-1, 100}, fee : {-1, 0}]

\* normalizeTradeType: the lower-cased trade type when it is supported
TradeTypes == {"buy", "sell", "dividend", "cash"}

normalizeTradeType(tt) ==
    LET low == IF tt = "Cash" THEN "cash" ELSE tt
    IN  IF low \in TradeTypes THEN [tt |-> low, err |-> ""]
        ELSE [tt |-> "", err |-> "unsupported trade_type"]

\* transactionDTO.toDomain: the date, the trade type and the symbol are
\* checked; shares, price and fee are copied
toDomain(d, id) ==
    IF ~d.dateOK THEN [err |-> "invalid date"]
    ELSE IF normalizeTradeType(d.tradeType).err # ""
         THEN [err |-> normalizeTradeType(d.tradeType).err]
    ELSE IF d.symbol = "" /\ normalizeTradeType(d.tradeType).tt # "cash"
         THEN [err |-> "symbol is required"]
    ELSE [err |-> "", id |-> id, symbol |-> d.symbol,
          tradeType |-> normalizeTradeType(d.tradeType).tt,
          shares |-> d.shares, price |-> d.price, fee |-> d.fee]

StoreInit ==
    /\ refCCY = "TWD"
    /\ exchanger = NoExchanger
    /\ prices = NoProvider
    /\ quotes = NoQuotes
    /\ txs = <<>>
    /\ pc = "idle"
    /\ xs = <<>>
    /\ i = 0
    /\ st = ZeroSt
    /\ cs = ZeroStats
    /\ bucket = NoBucket
    /\ out = NoOut
    /\ rateFrom = ""
    /\ rateOut = 0
    /\ bt = ZeroBt
    /\ allocBasis = ""
    /\ pv = ZeroPv
    /\ hl = ZeroHl
    /\ store = ZeroStore
    /\ cp = ZeroCp
    /\ repo = ZeroRepo

storeFrame ==
    <<refCCY, exchanger, prices, quotes, txs, pc, xs, i, st, cs, bucket, out,
      rateFrom, rateOut, bt, allocBasis, pv, hl, cp, repo>>

\* CreateOne: the DTO is converted and, when that succeeds, stored
CreateOne ==
    /\ Len(store.txs) < MaxStored
    /\ \E d \in DTOs :
          LET tx == toDomain(d, store.created + 1)
          IN  IF tx.err # ""
              THEN store' = [store EXCEPT !.op = "CreateOne", !.err = tx.err]
              ELSE store' = [store EXCEPT !.op = "CreateOne", !.err = "",
                                          !.txs = Append(@, tx), !.created = @ + 1]
    /\ UNCHANGED storeFrame

\* CreateBatch of two DTOs: every DTO is converted before anything is stored
CreateBatch ==
    /\ Len(store.txs) + 2 <= MaxStored
    /\ \E d1 \in DTOs, d2 \in DTOs :
          LET tx1 == toDomain(d1, store.created + 1)
              tx2 == toDomain(d2, store.created + 2)
          IN  IF tx1.err # ""
              THEN store' = [store EXCEPT !.op = "CreateBatch", !.err = tx1.err]
              ELSE IF tx2.err # ""
              THEN store' = [store EXCEPT !.op = "CreateBatch", !.err = tx2.err]
              ELSE store' = [store EXCEPT !.op = "CreateBatch", !.err = "",
                                          !.txs = @ \o <<tx1, tx2>>, !.created = @ + 2]
    /\ UNCHANGED storeFrame

\* Update of a stored transaction: the DTO is converted under the id of the
\* existing transaction, which it replaces
Update ==
    /\ \E n \in 1..Len(store.txs), d \in DTOs :
          LET tx == toDomain(d, store.txs[n].id)
          IN  IF tx.err # ""
              THEN store' = [store EXCEPT !.op = "Update", !.err = tx.err]
              ELSE store' = [store EXCEPT !.op = "Update", !.err = "", !.txs[n] = tx]
    /\ UNCHANGED storeFrame

StoreNext == CreateOne \/ CreateBatch \/ Update

SpecStore == StoreInit /\ [][StoreNext]_vars

(***************************************************************************)
(* WithRef.  The argument is a sequence of characters, so that trimming    *)
(* and upper-casing are computed; the reference currency of a service is   *)
(* the string the characters spell.                                        *)
(***************************************************************************)
RefPads == {<<>>, <<" ">>}

RefCores ==
    {<<>>, <<"T", "W", "D">>, <<"t", "w", "d">>, <<"T", "w", "d">>,
     <<"U", "S", "D">>, <<"u", "s", "d">>, <<"u", "S", "d">>,
     <<"E", "U", "R">>, <<"e", "u", "r">>, <<"J", "P", "Y">>}

\* the values of the ref argument
RefArgs == {l \o c \o r : l \in RefPads, c \in RefCores, r \in RefPads}

\* the reference currencies a service is constructed with (REF_CCY,
\* upper-cased, TWD when empty)
ConfiguredRefs == {"TWD", "USD", "EUR"}

\* strings.ToUpper on one character
UpperChar(c) ==
    CASE c = "t" -> "T" [] c = "w" -> "W" [] c = "d" -> "D"
      [] c = "u" -> "U" [] c = "s" -> "S" [] c = "e" -> "E"
      [] c = "r" -> "R" [] OTHER -> c

\* strings.ToUpper on a sequence of characters
UpperChars(s) == [n \in 1..Len(s) |-> UpperChar(s[n])]

\* strings.TrimSpace on a sequence of characters
RECURSIVE TrimLeft(_)
TrimLeft(s) == IF s # <<>> /\ Head(s) = " " THEN TrimLeft(Tail(s)) ELSE s

RECURSIVE TrimRight(_)
TrimRight(s) ==
    IF s # <<>> /\ s[Len(s)] = " " THEN TrimRight(SubSeq(s, 1, Len(s) - 1)) ELSE s

TrimChars(s) == TrimRight(TrimLeft(s))

\* the string a sequence of characters spells
RECURSIVE Join(_)
Join(s) == IF s = <<>> THEN "" ELSE Head(s) \o Join(Tail(s))

\* a bug: every unaccepted value gives TWD whatever the receiver uses
WithRefCurrency_AlwaysTWD(recv, ref) ==
    LET r == Join(UpperChars(TrimChars(ref)))
    IN  IF r \in {"USD", "TWD"} THEN r ELSE "TWD"

\* bug: the argument is upper-cased but not trimmed
WithRefCurrency_Untrimmed(recv, ref) ==
    LET r == Join(UpperChars(ref))
    IN  IF r \in {"USD", "TWD"} THEN r
        ELSE IF recv # "" /\ (recv = "USD" \/ recv = "TWD") THEN recv
        ELSE "TWD"

\* WithRef: the reference currency of the copy, recv being s.refCCY
WithRefCurrency(recv, ref) ==
    LET r == Join(UpperChars(TrimChars(ref)))
    IN  IF r \in {"USD", "TWD"} THEN r
        ELSE IF recv # "" /\ (recv = "USD" \/ recv = "TWD") THEN recv
        ELSE "TWD"

RefInit ==
    /\ refCCY \in ConfiguredRefs
    /\ exchanger = NoExchanger
    /\ prices = NoProvider
    /\ quotes = NoQuotes
    /\ txs = <<>>
    /\ pc = "idle"
    /\ xs = <<>>
    /\ i = 0
    /\ st = ZeroSt
    /\ cs = ZeroStats
    /\ bucket = NoBucket
    /\ out = NoOut
    /\ rateFrom = ""
    /\ rateOut = 0
    /\ bt = ZeroBt
    /\ allocBasis = ""
    /\ pv = ZeroPv
    /\ hl = ZeroHl
    /\ store = ZeroStore
    /\ cp = ZeroCp
    /\ repo = ZeroRepo

\* WithRef(ref): cp := *s; cp.refCCY = r; the receiver is not written
WithRef ==
    /\ \E ref \in RefArgs :
          cp' = [pc |-> "returned", ref |-> ref, refCCY |-> WithRefCurrency(refCCY, ref)]
    /\ UNCHANGED <<refCCY, exchanger, prices, quotes, txs, pc, xs, i, st, cs, bucket,
                   out, rateFrom, rateOut, bt, allocBasis, pv, hl, store, repo>>

RefNext == WithRef

SpecRef == RefInit /\ [][RefNext]_vars

(***************************************************************************)
(* Claims about the Cash Reconciler.                                       *)
(***************************************************************************)
\* C1: the running cash balance of computeCashStats is >= 0 after every
\* processed transaction (inferred deposit included), and so is the balance
\* it reports.
C1_CashNonNegative ==
    /\ st.prefix >= 0
    /\ st.sum = st.prefix
    /\ cs.balance >= 0

\* C1 witness: a buy that outruns the cash at hand has been processed
C1_Witness ==
    /\ pc = "cashDone"
    /\ cs.inferred > 0
    /\ cs.deposits > 0
    /\ cs.balance = 0

\* C2: a step records an inferred deposit only when balance + delta < 0; the
\* amount is exactly -(balance + delta), the balance is 0 right after the
\* step, and any smaller amount would leave the balance negative at that step.
C2_InferredMinimal ==
    [][(pc = "cashLoop" /\ i' = i + 1 /\ st'.inferredEvents # st.inferredEvents) =>
        LET d == Delta(xs[i])
            e == st'.inferredEvents[Len(st'.inferredEvents)]
        IN  /\ Len(st'.inferredEvents) = Len(st.inferredEvents) + 1
            /\ st.prefix + d < 0
            /\ e.when = xs[i].date
            /\ e.amount = 0 - (st.prefix + d)
            /\ st'.inferredTotal = st.inferredTotal + e.amount
            /\ st'.prefix = 0
            /\ \A k \in 1..e.amount : st.prefix + (e.amount - k) + d < 0]_vars

\* C2 witness: with 500 at hand a buy of 800 has recorded an inferred 300
C2_Witness ==
    /\ pc = "cashLoop"
    /\ st.inferredEvents = <<Event(1, 300)>>
    /\ st.deposits = 500
    /\ st.prefix = 0

\* the deltas of the transactions of list dated d, in list order
DeltasOn(list, d) ==
    LET F[k \in 0..Len(list)] ==
            IF k = 0 THEN <<>>
            ELSE IF list[k].date = d THEN Append(F[k - 1], Delta(list[k])) ELSE F[k - 1]
    IN  F[Len(list)]

\* the amounts of the events of evs dated d
AmountsOn(evs, d) ==
    LET F[k \in 0..Len(evs)] ==
            IF k = 0 THEN <<>>
            ELSE IF evs[k].when = d THEN Append(F[k - 1], evs[k].amount) ELSE F[k - 1]
    IN  F[Len(evs)]

\* net cash delta of date d
NetOn(d) == SumSeq(DeltasOn(txs, d))

\* the balance at the start of date d according to the claim: no top-up is
\* carried over, a surplus is
RECURSIVE BalanceAtStart(_)
BalanceAtStart(d) == IF d <= FirstDate THEN 0 ELSE Max(0, BalanceAtStart(d - 1) + NetOn(d - 1))

\* total top-up needed when the deltas ds are applied in the given order from balance b
RECURSIVE TopUps(_, _)
TopUps(b, ds) ==
    IF ds = <<>> THEN 0
    ELSE LET need == IF b + ds[1] < 0 THEN 0 - (b + ds[1]) ELSE 0
         IN  need + TopUps(b + need + ds[1], Tail(ds))

\* C7: within one date inflows are applied before outflows, so the inferred
\* deposits of a date total max(0, -(balance at the start of the date + net
\* delta of the date)), the least any ordering of that date needs; a deposit of
\* 500 and a buy of 800 on one day give one inferred deposit of 300 and balance 0.
C7_SameDayInflowsFirst ==
    /\ \A a, b \in 1..Len(xs) :
          (a < b /\ xs[a].date = xs[b].date) => ~(Delta(xs[a]) < 0 /\ Delta(xs[b]) > 0)
    /\ pc = "cashDone" =>
          /\ \A d \in Dates :
                /\ SumSeq(AmountsOn(cs.inferredEvents, d))
                      = Max(0, 0 - (BalanceAtStart(d) + NetOn(d)))
                /\ \A p \in Perms(DeltasOn(txs, d)) :
                      TopUps(BalanceAtStart(d), p) >= SumSeq(AmountsOn(cs.inferredEvents, d))
          /\ cs.balance = BalanceAtStart(LastDate + 1)
          /\ (/\ Len(txs) = 2
              /\ txs[1].date = txs[2].date
              /\ {[tt |-> t.tt, total |-> t.total, ccy |-> t.ccy] : t \in {txs[1], txs[2]}}
                    = {[tt |-> "cash", total |-> 500, ccy |-> "TWD"],
                       [tt |-> "buy", total |-> -800, ccy |-> "TWD"]})
             => /\ cs.inferredEvents = <<Event(txs[1].date, 300)>>
                /\ cs.inferred = 300
                /\ cs.balance = 0

\* C7 witness: the buy of 800 is supplied before the deposit of 500 of the same day
C7_Witness ==
    /\ pc = "cashDone"
    /\ Len(txs) = 2
    /\ txs[1].tt = "buy" /\ txs[1].total = -800
    /\ txs[2].tt = "cash" /\ txs[2].total = 500
    /\ txs[1].date = txs[2].date
    /\ cs.inferred = 300

\* xs is ordered by date, then cash delta descending, then id
SortedByDateDeltaId(s) ==
    \A a, b \in 1..Len(s) :
        a < b =>
            \/ s[a].date < s[b].date
            \/ s[a].date = s[b].date /\ Delta(s[a]) > Delta(s[b])
            \/ s[a].date = s[b].date /\ Delta(s[a]) = Delta(s[b]) /\ s[a].id < s[b].id

\* xs is ordered by date, then inflows before outflows, then id
SortedByDateDirectionId(s) ==
    \A a, b \in 1..Len(s) :
        a < b =>
            \/ s[a].date < s[b].date
            \/ s[a].date = s[b].date /\ Delta(s[a]) > 0 /\ Delta(s[b]) < 0
            \/ /\ s[a].date = s[b].date
               /\ ~(Delta(s[a]) < 0 /\ Delta(s[b]) > 0)
               /\ ~(Delta(s[a]) > 0 /\ Delta(s[b]) < 0)
               /\ s[a].id < s[b].id

\* every output of computeCashStats is the same for every reordering of the input
PermutationInvariant == pc = "cashDone" => \A p \in Perms(txs) : computeCashStats(p) = cs

\* C5 as stated: the order is date, then inflow before outflow, then id, and
\* the outputs of computeCashStats do not depend on the order of the input.
C5_AsStated ==
    /\ pc \in {"cashLoop", "cashDone"} => SortedByDateDirectionId(xs)
    /\ PermutationInvariant

\* C5 amended: the order is date, then cash delta descending (every inflow
\* before every outflow), then id for equal deltas; it is total on distinct ids
\* and the outputs of computeCashStats do not depend on the order of the input.
C5_TotalOrder ==
    /\ pc \in {"cashLoop", "cashDone"} => SortedByDateDeltaId(xs)
    /\ PermutationInvariant

\* C5 witness: three transactions of one date, two of them with equal deltas,
\* supplied in an order the sort has to change
C5_Witness ==
    /\ pc = "cashDone"
    /\ Len(txs) = 3
    /\ xs # txs
    /\ \A a, b \in 1..3 : txs[a].date = txs[b].date
    /\ \E a, b \in 1..3 : a # b /\ Delta(txs[a]) = Delta(txs[b]) /\ txs[a].tt # txs[b].tt

(***************************************************************************)
(* Claims about the Position Ledger and the allocation view.               *)
(***************************************************************************)
InLedgerLoop == pc \in {"allocLoop", "sumLoop"}
LedgerDone == pc \in {"allocDone", "sumDone"} /\ i > 0

\* C3: in the ledger folds investedRef of every symbol is >= 0 after each
\* processed transaction; a sell never drives it below zero.
C3_InvestedNonNegative ==
    \A y \in DOMAIN bucket : RLe(RZero, bucket[y].invested)

\* C3 witness: a sell of more shares than held has been processed
C3_Witness ==
    /\ InLedgerLoop
    /\ "AMZN" \in DOMAIN bucket
    /\ bucket["AMZN"].shares < 0
    /\ bucket["AMZN"].invested = RZero
    /\ \E k \in 1..(i - 1) : txs[k].tt = "buy" /\ txs[k].sym = "AMZN"

\* a summary lists no symbol whose shares are 0
NoPositionWithoutShares ==
    (pc = "sumDone" /\ out.err = "") =>
        \A y \in DOMAIN bucket : bucket[y].shares = 0 => y \notin DOMAIN out.positions

\* buy 10 shares for 1000, then sell 10 shares for 1200, in the reference currency
BuyThenSellAll ==
    /\ Len(txs) = 2
    /\ txs[1].tt = "buy" /\ txs[1].shares = 10 /\ txs[1].total = -1000 /\ txs[1].ccy = "TWD"
    /\ txs[2].tt = "sell" /\ txs[2].shares = 10 /\ txs[2].total = 1200 /\ txs[2].ccy = "TWD"
    /\ txs[1].sym = txs[2].sym
    /\ txs[1].date <= txs[2].date

\* C4: a sell of exactly the q > 0 shares held leaves investedRef = 0 and
\* shares = 0 for the symbol, which then has no position in the summary; so
\* does buy 10 for 1000 followed by sell 10 for 1200.
C4_SellAllZeroes ==
    /\ [][(InLedgerLoop /\ i' = i + 1 /\ txs[i].tt = "sell"
             /\ txs[i].sym \in DOMAIN bucket
             /\ bucket[txs[i].sym].shares > 0
             /\ txs[i].shares = bucket[txs[i].sym].shares)
          => (/\ bucket'[txs[i].sym].invested = RZero
              /\ bucket'[txs[i].sym].shares = 0)]_vars
    /\ []NoPositionWithoutShares
    /\ []((BuyThenSellAll /\ LedgerDone) =>
            (bucket[txs[1].sym].shares = 0 /\ bucket[txs[1].sym].invested = RZero))

\* C4 witness: the summary of buy 10 for 1000, sell 10 for 1200 has been computed
C4_Witness ==
    /\ pc = "sumDone"
    /\ out.err = ""
    /\ BuyThenSellAll
    /\ bucket["AMZN"].shares = 0
    /\ bucket["AMZN"].invested = RZero
    /\ DOMAIN out.positions = {}

\* shares and investedRef per symbol
Holdings(b) == [y \in DOMAIN b |-> <<b[y].shares, b[y].invested>>]

\* C6: the ledger's per-symbol shares and investedRef do not depend on the
\* order in which the transaction source supplies the transactions of one
\* date (the ledger sorts a list by date; every reordering of the supplied
\* list is a reordering within dates once sorted).
C6_LedgerOrderIndependent ==
    LedgerDone => \A p \in Perms(txs) : Holdings(Ledger(p)) = Holdings(bucket)

\* the value an item is weighted by, and the total of the result
ItemValue(it) == IF out.basis = "invested" THEN it.invested ELSE it.marketValue
OutTotal == IF out.basis = "invested" THEN out.totalInvested ELSE out.totalMarketValue

\* C8: in every allocation result the total is the sum of the items' values;
\* when it is > 0 each weight is value / total x 100 and the weights sum to
\* 100 (invested 300 and 700 weigh 30 and 70); when it is 0 every weight is 0.
C8_WeightsNormalized ==
    (pc = "allocDone" /\ out.err = "") =>
        LET its == out.items
            S == DOMAIN its
        IN  /\ OutTotal = RSumOver([y \in S |-> ItemValue(its[y])], S)
            /\ RLt(RZero, OutTotal) =>
                  /\ \A y \in S :
                        its[y].weightPercent
                            = RMul(RDiv(ItemValue(its[y]), OutTotal), RInt(100))
                  /\ RSumOver([y \in S |-> its[y].weightPercent], S) = RInt(100)
            /\ OutTotal = RZero => \A y \in S : its[y].weightPercent = RZero
            /\ (out.basis = "invested"
                  /\ {its[y].invested : y \in S} = {RInt(300), RInt(700)})
               => {its[y].weightPercent : y \in S} = {RInt(30), RInt(70)}

\* C8 witness: an invested-basis result over invested capital 700 and 300
C8_Witness ==
    /\ pc = "allocDone"
    /\ out.err = ""
    /\ out.basis = "invested"
    /\ DOMAIN out.items = {"AMZN", OptionSymbol}
    /\ out.items["AMZN"].invested = RInt(700)
    /\ out.items[OptionSymbol].invested = RInt(300)
    /\ out.items["AMZN"].weightPercent = RInt(70)

(***************************************************************************)
(* Claims about the Currency Normalizer.                                   *)
(***************************************************************************)
\* the cases in which rate falls back to 1: from is the reference currency
\* (compared without regard to case), from is blank, no exchanger is
\* configured, the lookup fails, or the exchanger's rate is <= 0
RateFallsBack ==
    \/ EqualFold(rateFrom, refCCY)
    \/ TrimSpace(rateFrom) = ""
    \/ exchanger.nil
    \/ exchanger.ans[rateFrom].err
    \/ exchanger.ans[rateFrom].r <= 0

\* C9: rate(from) returns exactly 1 when from is the reference currency, is
\* blank, no exchanger is configured, the lookup fails or the exchanger's
\* rate is <= 0; in every other case it returns the exchanger's rate; it
\* never returns a value <= 0.
C9_RateFallback ==
    pc = "rated" =>
        /\ RateFallsBack => rateOut = 1
        /\ ~RateFallsBack => rateOut = exchanger.ans[rateFrom].r
        /\ rateOut > 0

\* C9 witness: the exchanger answered a foreign currency with a rate <= 0
\* and no error, and rate returned 1
C9_Witness ==
    /\ pc = "rated"
    /\ ~exchanger.nil
    /\ rateFrom = "USD"
    /\ refCCY = "TWD"
    /\ ~exchanger.ans[rateFrom].err
    /\ exchanger.ans[rateFrom].r <= 0
    /\ rateOut = 1

(***************************************************************************)
(* Claims about the drawdown tracking of the Backtest Simulator.           *)
(***************************************************************************)
\* the equity point a step adds to the alternate curve exceeds the peak
\* tracked before the step (equityRef inside the loops, altEquity after them)
AltPointExceedsPeak == RLt(bt.altPeak, bt'.equityRef) \/ RLt(bt.altPeak, bt'.altEquity)

\* the same for the curve of the actual portfolio
CurPointExceedsPeak == RLt(bt.peak, bt'.eq)

\* C10: on the alternate curve and on the curve of the actual portfolio the
\* tracked peak never decreases, the tracked maximum drawdown is always <= 0
\* and never moves toward 0, and an equity point above the existing peak
\* leaves the tracked maximum drawdown unchanged.
C10_DrawdownMonotone ==
    [][/\ RLe(bt.altPeak, bt'.altPeak)
       /\ RLe(bt'.altMaxDrop, bt.altMaxDrop)
       /\ RLe(bt'.altMaxDrop, RZero)
       /\ AltPointExceedsPeak => bt'.altMaxDrop = bt.altMaxDrop
       /\ RLe(bt.peak, bt'.peak)
       /\ RLe(bt'.currentMaxDrop, bt.currentMaxDrop)
       /\ RLe(bt'.currentMaxDrop, RZero)
       /\ CurPointExceedsPeak => bt'.currentMaxDrop = bt.currentMaxDrop]_vars

\* C10 witness: a deposit of 500 bought at 50, a withdrawal of 100 sold at 50
\* the day after (equity 400, a drop of 20 percent from the peak 500), then
\* the current price 100: the new peak 800 has left the maximum drawdown at -20
C10_Witness ==
    /\ pc \in {"curTop", "curBody", "curClose", "curAsOf", "btDone"}
    /\ bt.equityRef = RInt(400)
    /\ bt.altEquity = RInt(800)
    /\ bt.altPeak = RInt(800)
    /\ bt.altMaxDrop = RInt(-20)

(***************************************************************************)
(* Claims about the result of the Backtest Simulator.                      *)
(***************************************************************************)
\* the current price has been resolved and the alternate result computed
AltResultKnown ==
    \/ pc \in {"curTop", "curBody", "curClose", "curAsOf"}
    \/ pc = "btDone" /\ out.err = ""

\* the call whose only event is a deposit of 1000, into a symbol with
\* multiplier 1 quoted in the reference currency
SingleDepositOf1000 ==
    /\ pc \notin {"idle"} /\ ~prices.nil
    /\ bt.evs = <<[when |-> FirstDate, kind |-> "deposit", amount |-> 1000]>>
    /\ multiplierForSymbol(bt.symbol) = 1
    /\ rate(bt.symbolCCY) = 1

\* the deposit of that call has just been applied at a price of 100
DepositPricedAt100 ==
    /\ SingleDepositOf1000
    /\ bt.price = 100
    /\ \/ pc = "altDay" /\ bt.d = FirstDate + 1
       \/ pc = "altEvent" /\ bt.k = 2

\* C11: altEquity = simulated shares x current price x multiplier x rate,
\* altPL = altEquity - effectiveCashIn, altPLPercent = altPL / peakContrib x
\* 100, or 0 when peakContrib is 0, and the response carries them; a single
\* deposit of 1000 priced at 100 (multiplier 1, rate 1) holds 10 shares, and
\* with current price 110 altEquity is 1100 and altPL is 100.
C11_BacktestResult ==
    /\ AltResultKnown =>
          /\ bt.altEquity
                = RMul(bt.shares,
                       RInt(bt.curPrice * multiplierForSymbol(bt.symbol) * rate(bt.symbolCCY)))
          /\ bt.altPL = RSub(bt.altEquity, RInt(cs.effectiveIn))
          /\ bt.altPct = IF cs.peakContrib = 0 THEN RZero
                         ELSE RMul(RDiv(bt.altPL, RInt(cs.peakContrib)), RInt(100))
    /\ (pc = "btDone" /\ out.err = "") =>
          out.altPL = bt.altPL /\ out.altPLPercent = bt.altPct
    /\ DepositPricedAt100 => bt.shares = RInt(10)
    /\ (SingleDepositOf1000 /\ AltResultKnown /\ bt.shares = RInt(10) /\ bt.curPrice = 110) =>
          bt.altEquity = RInt(1100) /\ bt.altPL = RInt(100)

\* C11 witness: the response of the call with the single deposit of 1000,
\* bought at 100 and valued at 110
C11_Witness ==
    /\ SingleDepositOf1000
    /\ pc = "btDone" /\ out.err = ""
    /\ bt.shares = RInt(10)
    /\ bt.curPrice = 110
    /\ out.altPL = RInt(100)
    /\ out.altPLPercent = RInt(10)

(***************************************************************************)
(* Claims about the basis of an allocation.                                *)
(***************************************************************************)
AllocReturned == pc = "allocDone"

UnsupportedBasisError == out = ErrorOut("alloc", "unsupported basis")

\* C12 as stated: every basis other than the literal names invested and
\* market_value (and the empty basis, treated as invested) fails with the
\* unsupported-basis error.  The basis "Market_Value" is accepted.
C12_AsStated ==
    AllocReturned =>
        /\ allocBasis \notin {"", "invested", "market_value"} => UnsupportedBasisError
        /\ allocBasis = "" => out = AllocInvested(bucket)

\* C12: allocations fail with the unsupported-basis error, and return no
\* items, for every basis that is neither invested nor market_value once
\* letter case is disregarded; a basis that differs from one of the two names
\* in letter case alone is handled as that name; the empty basis is handled
\* as invested.
C12_UnsupportedBasis ==
    AllocReturned =>
        /\ allocBasis \notin {"", "invested", "market_value", "Market_Value"} =>
              UnsupportedBasisError /\ "items" \notin DOMAIN out
        /\ allocBasis = "Market_Value" =>
              out = AllocResult(bucket, "market_value", quotes)
        /\ allocBasis = "" =>
              out = AllocResult(bucket, "invested", quotes) /\ out.err = ""

\* C12 witness: the basis "cost" has been refused for a ledger holding a
\* position
C12_Witness ==
    /\ AllocReturned
    /\ allocBasis = "cost"
    /\ Held(bucket) # {}
    /\ UnsupportedBasisError

NoProviderError == out = ErrorOut("alloc", "no PriceProvider configured for market_value basis")

\* C13: without a price provider an allocation on the basis market_value
\* fails with the no-price-provider error; an allocation on the basis
\* invested asks no price and succeeds with or without a provider.
C13_ProviderOnlyForMarketValue ==
    AllocReturned =>
        /\ (ToLower(allocBasis) = "market_value" /\ prices.nil) =>
              NoProviderError /\ "items" \notin DOMAIN out
        /\ allocBasis = "invested" =>
              /\ out.err = ""
              /\ out.basis = "invested"
              /\ DOMAIN out.items = {y \in DOMAIN bucket :
                                        bucket[y].shares > 0 \/ bucket[y].invested # RZero}
              /\ quotes = NoQuotes

\* C13 witness: an invested allocation of a held position has succeeded with
\* no price provider configured
C13_Witness ==
    /\ AllocReturned
    /\ prices.nil
    /\ allocBasis = "invested"
    /\ out.err = ""
    /\ Held(bucket) # {}
    /\ DOMAIN out.items = Held(bucket)

(***************************************************************************)
(* Claims about failed price lookups in a valuation.                       *)
(***************************************************************************)
\* a market_value allocation or a summary has returned from its valuation
Valued ==
    \/ AllocReturned /\ ToLower(allocBasis) = "market_value" /\ ~prices.nil
    \/ pc = "sumDone" /\ ~prices.nil

\* the lines of the result: items of an allocation, positions of a summary
Lines == IF out.kind = "alloc" THEN out.items ELSE out.positions

\* the held symbols whose price lookup succeeded
PricedHeld == {y \in DOMAIN bucket : bucket[y].shares > 0 /\ ~quotes[y].err}

\* some held symbol could not be priced
LookupFailed == \E y \in DOMAIN bucket : bucket[y].shares > 0 /\ quotes[y].err

\* C14: a failed price lookup never aborts a market_value allocation or a
\* summary: the call succeeds, its result lists exactly the held symbols
\* (shares > 0) whose lookup succeeded, and the total market value and the
\* weights are computed over those symbols only.
C14_LookupFailureSkipsSymbol ==
    Valued =>
        /\ out.err = ""
        /\ DOMAIN Lines = PricedHeld
        /\ \A y \in PricedHeld :
              Lines[y].marketValue
                = RInt(bucket[y].shares * quotes[y].price * multiplierForSymbol(y)
                         * rate(bucket[y].currency))
        /\ out.totalMarketValue
              = RSumOver([y \in PricedHeld |-> Lines[y].marketValue], PricedHeld)
        /\ \A y \in PricedHeld :
              LET w == IF out.kind = "alloc" THEN Lines[y].weightPercent
                       ELSE Lines[y].weightPercentByMV
              IN  w = IF RLt(RZero, out.totalMarketValue)
                      THEN RMul(RDiv(Lines[y].marketValue, out.totalMarketValue), RInt(100))
                      ELSE RZero

\* C14 witness: a market_value allocation of two held symbols, one of which
\* could not be priced, lists the other alone with weight 100
C14_Witness ==
    /\ AllocReturned /\ ToLower(allocBasis) = "market_value"
    /\ Held(bucket) = {"AMZN", OptionSymbol}
    /\ quotes[OptionSymbol].err
    /\ out.err = ""
    /\ DOMAIN out.items = {"AMZN"}
    /\ out.items["AMZN"].weightPercent = RInt(100)

(***************************************************************************)
(* Claims about the failures of the Backtest Simulator.                    *)
(***************************************************************************)
BacktestReturned == pc = "btDone"

\* the response carries an error and none of the result's fields
FailedWith(msg) == out = [kind |-> "backtest", err |-> msg]

\* the lookup of the current price of the alternate symbol has failed
CurrentPriceUnresolved == ~prices.nil /\ (bt.curErr \/ bt.curPrice <= 0)

\* C15: the backtest returns an error and no result when no price provider
\* is configured, and when the lookup of the alternate symbol's current
\* price fails or answers a price <= 0, whatever the event simulation did.
C15_BacktestFailures ==
    BacktestReturned =>
        /\ prices.nil => FailedWith("no PriceProvider configured (required for backtest)")
        /\ CurrentPriceUnresolved => FailedWith("failed to price backtest symbol")

\* C15 witness: the simulation bought shares, then the current price was
\* answered as 0 without an error, and the backtest failed
C15_Witness ==
    /\ BacktestReturned
    /\ RLt(RZero, bt.shares)
    /\ ~bt.curErr /\ bt.curPrice = 0
    /\ FailedWith("failed to price backtest symbol")

(***************************************************************************)
(* Claims about the deposits of the Backtest Simulator.                    *)
(***************************************************************************)
\* the deposit events of day d
DepositsOn(d) ==
    {n \in 1..Len(bt.evs) : bt.evs[n].when = d /\ bt.evs[n].kind = "deposit"}

WithdrawalsOn(d) ==
    {n \in 1..Len(bt.evs) : bt.evs[n].when = d /\ bt.evs[n].kind = "withdrawal"}

\* the shares bought with amount at a price: the amount in the currency of
\* the symbol, divided by price x multiplier
SharesBought(amount, price) ==
    RDiv(RDiv(RInt(amount), RInt(bt.rateSymToRef)), RInt(price * bt.mult))

\* the daily loop leaves day d behind
DayPassed == pc = "altDay" /\ bt.d <= Today /\ bt'.d = bt.d + 1

\* the event loop leaves event k behind
EventPassed == pc = "altEvent" /\ bt.k <= Len(bt.evs) /\ bt'.k = bt.k + 1

\* C16: every deposit event, explicit or inferred, is invested when the
\* simulation passes it: the step of the event loop over a deposit, and the
\* step of the daily loop over a day with deposits (and no withdrawal),
\* raise the simulated shares by amount / (price x multiplier) for a price
\* > 0 of the provider.  A day or an event whose price lookup fails is
\* passed without its deposits being applied.
C16_EveryDepositInvested ==
    [][/\ (EventPassed /\ bt.evs[bt.k].kind = "deposit") =>
             \E a \in ProviderAnswers :
                /\ Usable(a)
                /\ bt'.shares = RAdd(bt.shares, SharesBought(bt.evs[bt.k].amount, a.price))
       /\ (DayPassed /\ DepositsOn(bt.d) # {} /\ WithdrawalsOn(bt.d) = {}) =>
             \E a \in ProviderAnswers :
                /\ Usable(a)
                /\ bt'.shares
                     = RAdd(bt.shares,
                            RSumOver([n \in DepositsOn(bt.d) |->
                                         SharesBought(bt.evs[n].amount, a.price)],
                                     DepositsOn(bt.d)))]_vars

(***************************************************************************)
(* Claims about the positions a view lists.                                *)
(***************************************************************************)
\* an allocation or a summary has returned a result
ViewReturned == pc \in {"allocDone", "sumDone"} /\ out.err = ""

\* C17: every item of an allocation result, on either basis, and every
\* position of a summary has shares > 0, over-sold sequences included.  The
\* invested basis lists a symbol whose shares are <= 0 when its invested
\* capital is not 0.
C17_PositiveSharesOnly ==
    ViewReturned => \A y \in DOMAIN Lines : Lines[y].shares > 0

(***************************************************************************)
(* Claims about the cash-adjusted P&L of a summary.                        *)
(***************************************************************************)
\* a per-portfolio or a global summary has returned a result
SummaryReturned == pc \in {"sumDone", "sumAllDone"} /\ out.err = ""

\* num / den x 100, or 0 when den is not positive
PercentOf(num, den) ==
    IF den > 0 THEN RMul(RDiv(num, RInt(den)), RInt(100)) ELSE RZero

C19_InputUnchanged == [][txs' = txs]_vars

(***************************************************************************)
(* Claims about the cache of a price provider.                             *)
(***************************************************************************)
\* C20: under concurrent calls for one symbol the provider goes upstream at
\* most once per validity window: after a fetch that answered, no further
\* fetch of the same method happens before TTL has passed.  Two callers that
\* both miss the cache before either has stored both go upstream.
C20_OneFetchPerWindow ==
    \A m \in DOMAIN pv.fetches, n \in DOMAIN pv.fetches :
        (m < n /\ pv.fetches[m].method = pv.fetches[n].method /\ pv.fetches[m].ok)
            => pv.fetches[n].at - pv.fetches[m].at >= TTL

(***************************************************************************)
(* Claims about the historical price lookup.                               *)
(***************************************************************************)
\* the indices of the series whose day is on or before the requested date
OnOrBefore == {n \in 1..Len(hl.hs.days) : hl.hs.days[n] <= hl.date}

\* the days of the series ascend
DaysAscending ==
    \A m \in 1..Len(hl.hs.days), n \in 1..Len(hl.hs.days) :
        m < n => hl.hs.days[m] < hl.hs.days[n]

\* C21: over a series with ascending days, lookupHistClose and
\* lookupHistOpen return the price of the latest day on or before the
\* requested date (the open when it is > 0, else the close, for the open
\* basis), never of a later day, and fail with price not found when every
\* day of the series is after the date.
C21_LatestOnOrBefore ==
    (hl.pc = "done" /\ DaysAscending) =>
        IF OnOrBefore = {}
        THEN hl.err = ErrPriceNotFound /\ hl.price = 0
        ELSE LET n == CHOOSE x \in OnOrBefore :
                         \A y \in OnOrBefore : hl.hs.days[y] <= hl.hs.days[x]
             IN  /\ hl.err = ""
                 /\ hl.asOf = hl.hs.days[n]
                 /\ hl.asOf <= hl.date
                 /\ hl.price = IF hl.basis = "open" /\ hl.hs.opens[n] > 0
                               THEN hl.hs.opens[n] ELSE hl.hs.closes[n]

\* C21 witness: a close asked for day 2 of a series holding days 1 and 3
\* with different closes is answered with the close of day 1
C21_Witness ==
    /\ hl.pc = "done" /\ hl.basis = "close"
    /\ hl.hs.days = <<1, 3>>
    /\ hl.hs.closes = <<10, 20>>
    /\ hl.date = 2
    /\ hl.price = 10 /\ hl.asOf = 1 /\ hl.err = ""

(***************************************************************************)
(* Claims about the transactions the service accepts.                      *)
(***************************************************************************)
\* C22: every transaction accepted by CreateOne, CreateBatch or Update has
\* shares, unitPrice and fee >= 0: no stored transaction has a negative
\* magnitude.  The conversion of the DTO copies the three fields unchecked.
C22_StoredNonNegative ==
    \A n \in 1..Len(store.txs) :
        store.txs[n].shares >= 0 /\ store.txs[n].price >= 0 /\ store.txs[n].fee >= 0

(***************************************************************************)
(* Claims about the per-request reference currency.                        *)
(***************************************************************************)
\* the argument of the last WithRef, trimmed and upper-cased
RequestedRef == Join(UpperChars(TrimChars(cp.ref)))

Accepted == {"TWD", "USD"}

EventTotal(evs) == SumSeq([n \in 1..Len(evs) |-> evs[n].amount])

\* C24: the Cash Reconciler reports effectiveCashIn = deposits - withdrawals
\* + inferred (each the total of its event list), peakContrib >= 0 and
\* peakContrib >= effectiveCashIn.
C24_EffectiveInAndPeak ==
    pc = "cashDone" =>
        /\ cs.effectiveIn = cs.deposits - cs.withdrawals + cs.inferred
        /\ cs.effectiveIn = EventTotal(cs.depositEvents) - EventTotal(cs.withdrawalEvents)
                              + EventTotal(cs.inferredEvents)
        /\ cs.peakContrib >= 0
        /\ cs.peakContrib >= cs.effectiveIn

\* a deposit, then a larger withdrawal that needed an inferred deposit: the
\* peak stays above the effective cash in
C24_Witness ==
    /\ pc = "cashDone"
    /\ cs.deposits = 500
    /\ cs.withdrawals = 800
    /\ cs.inferred = 300
    /\ cs.effectiveIn = 0
    /\ cs.peakContrib = 500

\* the loop is about to process a cash withdrawal that the balance does not cover
WithdrawalNeedsInferred ==
    /\ pc = "cashLoop"
    /\ i <= Len(xs)
    /\ xs[i].tt = "cash"
    /\ Delta(xs[i]) < 0
    /\ InferNeed(st.prefix, Delta(xs[i])) > 0

\* C25: in a step where a cash withdrawal needs an inferred deposit, the
\* inferred amount is added to the net-contribution tracker before the
\* withdrawal is subtracted from it and clamped at 0: the tracker after the
\* step is max(0, tracker + inferred - withdrawal).
C25_InferredBeforeWithdrawal ==
    [][WithdrawalNeedsInferred /\ i' = i + 1 =>
          st'.contribPrefix =
              Max(0, st.contribPrefix + InferNeed(st.prefix, Delta(xs[i])) + Delta(xs[i]))]_vars

(***************************************************************************)
(* Claims about the order of the backtest events.                          *)
(***************************************************************************)
\* the simulation has its event list
EventsBuilt == pc \in {"altDay", "altEvent"}

\* event j may stand before event k: it is not later, and on the same
\* timestamp a withdrawal is not before a deposit
MayPrecede(a, b) ==
    /\ a.when <= b.when
    /\ a.when = b.when /\ a.kind = "withdrawal" => b.kind = "withdrawal"

\* the reference amount the events of day d add (deposits) and take
\* (withdrawals)
DayAmount(ns) == SumSeq([n \in 1..Len(bt.evs) |-> IF n \in ns THEN bt.evs[n].amount ELSE 0])

\* the shares after a day on which the deposits are applied before the
\* withdrawals, at one price
DepositsThenWithdrawals(price) ==
    LET up == RAdd(bt.shares, SharesBought(DayAmount(DepositsOn(bt.d)), price))
        down == RSub(up, SharesBought(DayAmount(WithdrawalsOn(bt.d)), price))
    IN  IF RLt(down, RZero) THEN RZero ELSE down

\* C26: the merged event list is ordered by timestamp ascending and, among
\* events of one timestamp, every deposit (explicit or inferred) precedes
\* every withdrawal; the events are applied in that order: the event loop
\* takes them by ascending index, and a day of the daily loop that is priced
\* applies its deposits before its withdrawals.
C26_EventsOrdered ==
    [][/\ EventsBuilt' =>
             \A j, k \in 1..Len(bt'.evs) : j < k => MayPrecede(bt'.evs[j], bt'.evs[k])
       /\ EventsBuilt => bt'.evs = bt.evs
       /\ pc = "altEvent" /\ pc' = "altEvent" => bt'.k = bt.k + 1
       /\ DayPassed =>
             \/ bt'.shares = bt.shares
             \/ \E a \in ProviderAnswers :
                   Usable(a) /\ bt'.shares = DepositsThenWithdrawals(a.price)]_vars

\* a withdrawal on the first day, a buy on the first day and a deposit on
\* the last: the inferred deposit of the first day stands before the
\* withdrawal of that day, and the deposit of the last day after both
C26_Witness ==
    /\ EventsBuilt
    /\ Len(bt.evs) >= 3
    /\ bt.evs[1].when = FirstDate /\ bt.evs[1].kind = "deposit"
    /\ bt.evs[2].when = FirstDate /\ bt.evs[2].kind = "withdrawal"
    /\ bt.evs[3].when = LastDate /\ bt.evs[3].kind = "deposit"
    /\ Len(cs.depositEvents) > 0
    /\ \/ pc = "altEvent" /\ bt.k > 3
       \/ pc = "altDay" /\ bt.d > FirstDate /\ RLt(RZero, bt.shares)

(***************************************************************************)
(* Claims about the simulated shares of the alternate instrument.          *)
(***************************************************************************)
\* the shares after event n is applied to the present shares at a price
AfterEvent(n, price) == AltShares(bt.shares, bt.evs[n], price, bt.mult, bt.rateSymToRef)

\* C27: the simulated share count is >= 0 after every applied event: applied
\* to any share count the simulation reaches, at any price > 0, a deposit
\* does not lower the count, a withdrawal of more shares than are held
\* leaves exactly 0 and no event leaves a negative count; hence altEquity
\* >= 0 and the alternate maximum drawdown is >= -100.
C27_SharesNonNegative ==
    /\ RLe(RZero, bt.shares)
    /\ \A n \in 1..Len(bt.evs), a \in ProviderAnswers :
          Usable(a) =>
             /\ RLe(RZero, AfterEvent(n, a.price))
             /\ bt.evs[n].kind = "deposit" => RLe(bt.shares, AfterEvent(n, a.price))
             /\ (bt.evs[n].kind = "withdrawal"
                   /\ RLt(bt.shares, SharesBought(bt.evs[n].amount, a.price)))
                  => AfterEvent(n, a.price) = RZero
    /\ RLe(RZero, bt.equityRef)
    /\ RLe(RZero, bt.altEquity)
    /\ RLe(RInt(-100), bt.altMaxDrop)

\* an inferred deposit of 100 was invested at 100 and the withdrawal of 100
\* that followed, priced at 50, asked for more shares than were held: no
\* share is left and the drawdown is -100
C27_Witness ==
    /\ pc = "altEvent"
    /\ bt.k > 1
    /\ bt.evs[bt.k - 1].kind = "withdrawal"
    /\ bt.price = 50
    /\ bt.altPeak = RInt(100)
    /\ bt.shares = RZero
    /\ bt.altMaxDrop = RInt(-100)

(***************************************************************************)
(* Claims about the cash of the replay of the actual portfolio.            *)
(***************************************************************************)
\* the replay is running or has just ended
InReplay == pc \in {"curTop", "curBody", "curClose", "curAsOf"}

\* the number of transactions the replay has applied
Replayed ==
    CASE pc \in {"curTop", "curBody"} -> i - 1
      [] pc = "curClose" -> i
      [] OTHER -> Len(xs)

\* the running balance of the Cash Reconciler after the first k transactions
\* of its sorted list
ReconcilerBalance(sorted, k) == CashFold(ZeroSt, SubSeq(sorted, 1, k), 1).prefix

\* C28: the replay of the actual portfolio injects inferred deposits as the
\* Cash Reconciler does: it walks the transactions in the reconciler's
\* order, after each transaction its cash equals the reconciler's running
\* balance after the same transaction, and its final cash equals the ending
\* balance the reconciler reported.
C28_ReplayCashIsReconcilerBalance ==
    InReplay =>
        /\ xs = insertionSort(txs, "cash")
        /\ cs = computeCashStats(xs)
        /\ bt.cash = ReconcilerBalance(xs, Replayed)
        /\ Replayed = Len(xs) => bt.cash = cs.balance

\* an unfunded buy of 800 and a sale for 1200: the replay has injected 800
\* and ends with the reconciler's balance of 1200
C28_Witness ==
    /\ pc = "curClose"
    /\ Len(xs) = 2
    /\ cs.inferred = 800
    /\ cs.balance = 1200
    /\ bt.cash = 1200

(***************************************************************************)
(* Claims about the global summary.                                        *)
(***************************************************************************)
\* the global summary has returned a result
GlobalSummaryReturned == pc = "sumAllDone" /\ out.err = ""

\* the Position Ledger over the chronologically ordered union of the
\* transactions of all portfolios, as ComputeAllocationsAll folds it
UnionLedger == LedgerFold(NoBucket, insertionSort(txs, "date"), 1)

\* C29: the per-symbol shares and invested capital of the global summary
\* equal the Position Ledger's result over the chronologically ordered union
\* of all portfolios' transactions, whatever the order of the portfolios.
C29_GlobalPositionsAreUnionLedger ==
    GlobalSummaryReturned =>
        /\ DOMAIN out.positions = {y \in Held(UnionLedger) : ~quotes[y].err}
        /\ \A y \in DOMAIN out.positions :
              /\ out.positions[y].shares = UnionLedger[y].shares
              /\ out.positions[y].invested = UnionLedger[y].invested

\* the Cash Reconciler over the union of the transactions of all portfolios,
\* the schedule ComputeBacktestAll uses
UnionCashStats == computeCashStats(txs)

\* C30: the cash figures of the global summary (balance, inferred deposits,
\* effectiveCashIn, peakContrib) equal the Cash Reconciler's output over the
\* union of all portfolios' transactions.
C30_GlobalCashIsUnionReconciler ==
    GlobalSummaryReturned =>
        /\ out.balance = UnionCashStats.balance
        /\ out.inferredDeposits = UnionCashStats.inferred
        /\ out.effectiveCashIn = UnionCashStats.effectiveIn
        /\ out.effectiveCashInPeak = UnionCashStats.peakContrib

(***************************************************************************)
(* Claims about the holdings of the replay of the actual portfolio.        *)
(***************************************************************************)
\* the replay has applied every transaction
ReplayEnded == pc \in {"curClose", "curAsOf"} \/ (pc = "btDone" /\ out.err = "")

\* the shares of the Position Ledger, which AltFinal left in bucket
LedgerShares(y) == IF y \in DOMAIN bucket THEN bucket[y].shares ELSE 0

\* C31: at the end of the replay the shares held per symbol equal
\* max(0, shares) of the Position Ledger for the same transactions.
C31_ReplayHoldingsAreLedgerShares ==
    ReplayEnded =>
        \A y \in Symbols : HoldingOf(bt.holdings, y).shares = Max(0, LedgerShares(y))

(***************************************************************************)
(* The ledger folds and the summary over lists that mix trades with        *)
(* dividends, deposits and withdrawals: FlowPool.                          *)
(***************************************************************************)
MaxFlowTxs == 3

FlowPool ==
    {Tmpl("cash", "", "TWD", 0, 500),
     Tmpl("cash", "", "TWD", 0, -800),
     Tmpl("buy", "AMZN", "TWD", 10, -1000),
     Tmpl("buy", "AMZN", "USD", 10, -10),
     Tmpl("sell", "AMZN", "TWD", 10, 1200),
     Tmpl("dividend", "AMZN", "TWD", 0, 50)}

FlowInit ==
    /\ refCCY = "TWD"
    /\ exchanger = Answering([r |-> 30, err |-> FALSE])
    /\ prices \in {NoProvider, SomeProvider}
    /\ quotes = NoQuotes
    /\ txs \in TxLists(FlowPool, MaxFlowTxs)
    /\ pc = "idle"
    /\ xs = <<>>
    /\ i = 0
    /\ st = ZeroSt
    /\ cs = ZeroStats
    /\ bucket = NoBucket
    /\ out = NoOut
    /\ rateFrom = ""
    /\ rateOut = 0
    /\ bt = ZeroBt
    /\ allocBasis = ""
    /\ pv = ZeroPv
    /\ hl = ZeroHl
    /\ store = ZeroStore
    /\ cp = ZeroCp
    /\ repo = ZeroRepo

FlowNext ==
    \/ AllocSort \/ AllocLoop \/ AllocReturn
    \/ SummarySort \/ SummaryLoop \/ SummaryReturn

SpecFlow == FlowInit /\ [][FlowNext]_vars

\* |total| x rate of the transactions of the given trade types
FlowOf(list, types) ==
    SumSeq([k \in 1..Len(list) |->
               IF list[k].tt \in types THEN Abs(list[k].total) * rate(list[k].ccy) ELSE 0])

\* sell and dividend proceeds minus buy costs
NetTradingFlow(list) == FlowOf(list, {"sell", "dividend"}) - FlowOf(list, {"buy"})

\* the list without its deposits and withdrawals
WithoutCash(list) == SelectSeq(list, LAMBDA tx : tx.tt # "cash")

\* ComputeSummary has returned a summary
FlowSummarised == pc = "sumDone" /\ out.err = ""

\* C32: endingBalance - effectiveCashIn is the sum of sell and dividend
\* proceeds minus the sum of buy costs; TotalUnrealizedPL is totalMarketValue
\* plus that flow, and is the same for the list without its cash transactions.
C32_AccountingIdentity ==
    FlowSummarised =>
        /\ out.balance - out.effectiveCashIn = NetTradingFlow(txs)
        /\ out.totalUnrealizedPL = RAdd(out.totalMarketValue, RInt(NetTradingFlow(txs)))
        /\ out.totalUnrealizedPL =
              SummaryResult(LedgerFold(NoBucket, WithoutCash(txs), 1),
                            WithoutCash(txs), quotes).totalUnrealizedPL

\* a summary of a list with a deposit, a withdrawal or an inferred deposit
\* next to a trade
C32_Witness ==
    /\ FlowSummarised
    /\ \E k \in 1..Len(txs) : txs[k].tt = "cash" /\ txs[k].total < 0
    /\ \E k \in 1..Len(txs) : txs[k].tt = "buy"
    /\ out.inferredDeposits > 0
    /\ out.totalMarketValue # RZero

(***************************************************************************)
(* Claims about what a step of the Position Ledger leaves alone.           *)
(***************************************************************************)
\* shares and investedRef of a symbol; a symbol without a bucket has none
SharesIn(b, y) == IF y \in DOMAIN b THEN b[y].shares ELSE 0
InvestedIn(b, y) == IF y \in DOMAIN b THEN b[y].invested ELSE RZero

\* one transaction of the fold is being processed
LedgerStepTaken == InLedgerLoop /\ i' = i + 1

\* C33: in the Position Ledger a dividend leaves the symbol's shares and
\* investedRef unchanged, a cash transaction leaves every bucket unchanged and
\* creates none, and only buy and sell change shares or investedRef.
C33_OnlyTradesMoveLedger ==
    [][LedgerStepTaken =>
          LET tx == txs[i]
          IN  /\ tx.tt = "dividend" =>
                    /\ SharesIn(bucket', tx.sym) = SharesIn(bucket, tx.sym)
                    /\ InvestedIn(bucket', tx.sym) = InvestedIn(bucket, tx.sym)
              /\ tx.tt = "cash" => bucket' = bucket
              /\ tx.tt \notin {"buy", "sell"} =>
                    \A y \in Symbols :
                        /\ SharesIn(bucket', y) = SharesIn(bucket, y)
                        /\ InvestedIn(bucket', y) = InvestedIn(bucket, y)]_vars

\* the fold has processed a buy, then a dividend, then a cash transaction
C33_Witness ==
    /\ InLedgerLoop
    /\ Len(txs) = 3 /\ i = 4
    /\ txs[1].tt = "buy" /\ txs[2].tt = "dividend" /\ txs[3].tt = "cash"
    /\ SharesIn(bucket, "AMZN") = 10

(***************************************************************************)
(* The repositories: the in-memory store keeps one transaction map per     *)
(* portfolio, the CSV store one map for all portfolios.  An entry of       *)
(* repo.transactions is a stored transaction under the key of the outer    *)
(* map it lives in (the portfolio id in memory, none on CSV).              *)
(***************************************************************************)
RepoKinds == {"memory", "csv"}

PortfolioIds == {1, 2}

ErrPortfolioNotFound == "portfolio not found"
ErrNotFound == "not found"

OuterKey(r, pf) == IF r.kind = "memory" THEN pf ELSE 0

\* the entries under txID in the map the portfolio's transactions live in
EntryOf(r, pf, id) ==
    {e \in r.transactions : e.key = OuterKey(r, pf) /\ e.tx.id = id}

\* pool[tx.ID] = tx
Put(r, pf, tx) ==
    [r EXCEPT !.transactions =
         (@ \ EntryOf(r, pf, tx.id)) \cup {[key |-> OuterKey(r, pf), tx |-> tx]}]

\* ensurePortfolio, after its check: the in-memory store makes the map of
\* the portfolio when it is missing
ensurePortfolio(r, pf) ==
    [r EXCEPT !.pools = IF r.kind = "memory" THEN @ \cup {pf} ELSE @]

\* a loop that stores the first transaction of the batch only
StoreAll_FirstOnly(r, pf, list) ==
    IF list = <<>> THEN r ELSE Put(r, pf, Head(list))

\* for _, tx := range txs { transactions[tx.ID] = tx }
RECURSIVE StoreAll(_, _, _)
StoreAll(r, pf, list) ==
    IF list = <<>> THEN r ELSE StoreAll(Put(r, pf, Head(list)), pf, Tail(list))

\* the repository's Create, under the store's lock
RepoCreate(r, pf, tx) ==
    IF pf \notin r.portfolios
    THEN [repo |-> r, err |-> ErrPortfolioNotFound]
    ELSE [repo |-> Put(ensurePortfolio(r, pf), pf, tx), err |-> ""]

\* the repository's CreateBatch, under the store's lock
RepoCreateBatch(r, pf, list) ==
    IF pf \notin r.portfolios
    THEN [repo |-> r, err |-> ErrPortfolioNotFound]
    ELSE [repo |-> StoreAll(ensurePortfolio(r, pf), pf, list), err |-> ""]

\* the lookup GetByID, Update and Delete of the transaction repository start
\* with: the portfolio's map in memory, the portfolio and the owner on CSV
Lookup(r, pf, id) ==
    IF r.kind = "memory"
    THEN IF pf \notin r.pools THEN ErrPortfolioNotFound
         ELSE IF EntryOf(r, pf, id) = {} THEN ErrNotFound ELSE ""
    ELSE IF pf \notin r.portfolios THEN ErrPortfolioNotFound
         ELSE IF \A e \in EntryOf(r, pf, id) : e.tx.pf # pf THEN ErrNotFound ELSE ""

\* the transaction repository's GetByID
RepoGetByID(r, pf, id) == Lookup(r, pf, id)

\* the transaction repository's Update
RepoUpdate(r, pf, tx) ==
    IF Lookup(r, pf, tx.id) # ""
    THEN [repo |-> r, err |-> Lookup(r, pf, tx.id)]
    ELSE [repo |-> Put(r, pf, tx), err |-> ""]

\* the transaction repository's Delete
RepoDelete(r, pf, id) ==
    IF Lookup(r, pf, id) # ""
    THEN [repo |-> r, err |-> Lookup(r, pf, id)]
    ELSE [repo |-> [r EXCEPT !.transactions = @ \ EntryOf(r, pf, id)], err |-> ""]

\* a Delete of the portfolio repository that leaves the transactions behind
PortfolioDelete_NoCascade(r, id) ==
    IF id \notin r.portfolios
    THEN [repo |-> r, err |-> ErrNotFound]
    ELSE [repo |-> [r EXCEPT !.portfolios = @ \ {id}], err |-> ""]

\* the portfolio repository's Delete: the portfolio and its transactions
PortfolioDelete(r, id) ==
    IF id \notin r.portfolios
    THEN [repo |-> r, err |-> ErrNotFound]
    ELSE [repo |->
            [r EXCEPT !.portfolios = @ \ {id},
                      !.pools = @ \ {id},
                      !.transactions =
                          IF r.kind = "memory"
                          THEN {e \in @ : e.key # id}
                          ELSE {e \in @ : e.tx.pf # id}],
          err |-> ""]

\* saveTransactionsLocked and savePortfoliosLocked write the CSV files and
\* may fail after the maps were changed
SaveOutcomes(r, err) ==
    IF r.kind = "csv" /\ err = "" THEN {"", "write failed"} ELSE {err}

\* toDomain's PortfolioID: portfolioID
Stamped(tx, pf) ==
    [id |-> tx.id, pf |-> pf, symbol |-> tx.symbol, tradeType |-> tx.tradeType,
     shares |-> tx.shares, price |-> tx.price, fee |-> tx.fee]

(***************************************************************************)
(* The repository specification: clients call the handlers of the          *)
(* services concurrently.  A repository method runs under the store's      *)
(* lock and is one step; a handler that reads and then writes is two.      *)
(***************************************************************************)
MaxClients == 2

Clients == 1..MaxClients

\* a payload that converts and one that does not
RepoDTOs ==
    {d \in DTOs : /\ d.symbol = "AMZN" /\ d.dateOK
                  /\ d.tradeType \in {"buy", "swap"}
                  /\ d.shares = 10 /\ d.price = 100 /\ d.fee = 0}

\* a client: the handler it runs, its arguments, the transactions it has
\* converted, and what it returned
IdleClient ==
    [pc |-> "idle", op |-> "", pf |-> 0, payload |-> <<>>, pending |-> <<>>,
     err |-> "", seen |-> {}]

\* the transaction the first portfolio starts with
SeedTx == Stamped(toDomain(CHOOSE d \in RepoDTOs : d.tradeType = "buy", 1), 1)

RepoInit ==
    /\ refCCY = "TWD"
    /\ exchanger = NoExchanger
    /\ prices = NoProvider
    /\ quotes = NoQuotes
    /\ txs = <<>>
    /\ pc = "idle"
    /\ xs = <<>>
    /\ i = 0
    /\ st = ZeroSt
    /\ cs = ZeroStats
    /\ bucket = NoBucket
    /\ out = NoOut
    /\ rateFrom = ""
    /\ rateOut = 0
    /\ bt = ZeroBt
    /\ allocBasis = ""
    /\ pv = ZeroPv
    /\ hl = ZeroHl
    /\ store = ZeroStore
    /\ cp = ZeroCp
    /\ \E k \in RepoKinds, pfs \in {{1}, {1, 2}} :
          repo = Put([ZeroRepo EXCEPT !.kind = k, !.portfolios = pfs, !.pools = pfs,
                                      !.created = 1,
                                      !.clients = [c \in Clients |-> IdleClient]],
                     1, SeedTx)

repoFrame ==
    <<refCCY, exchanger, prices, quotes, txs, pc, xs, i, st, cs, bucket, out,
      rateFrom, rateOut, bt, allocBasis, pv, hl, store, cp>>

\* the handler of client c has returned err
Returned(r, c, op, pf, err) ==
    [r EXCEPT !.clients[c] = [@ EXCEPT !.pc = "done", !.op = op, !.pf = pf, !.err = err]]

\* the handler of client c has converted its payload and is about to call
\* the repository
Pending(r, c, op, pf, list) ==
    [r EXCEPT !.clients[c] = [@ EXCEPT !.pc = "repo", !.op = op, !.pf = pf, !.pending = list]]

\* TransactionService.CreateOne up to the call of the repository
SvcCreateOne(c) ==
    /\ repo.clients[c].pc = "idle"
    /\ \E pf \in PortfolioIds, d \in RepoDTOs :
          LET tx == toDomain(d, repo.created + 1)
          IN  repo' = IF pf \notin repo.portfolios
                      THEN Returned(repo, c, "CreateOne", pf, ErrPortfolioNotFound)
                      ELSE IF tx.err # ""
                      THEN Returned(repo, c, "CreateOne", pf, tx.err)
                      ELSE Pending([repo EXCEPT !.created = @ + 1], c, "CreateOne", pf,
                                   <<Stamped(tx, pf)>>)
    /\ UNCHANGED repoFrame

\* TransactionService.CreateBatch up to the call of the repository
SvcCreateBatch(c) ==
    /\ repo.clients[c].pc = "idle"
    /\ \E pf \in PortfolioIds, d1 \in RepoDTOs, d2 \in RepoDTOs :
          LET tx1 == toDomain(d1, repo.created + 1)
              tx2 == toDomain(d2, repo.created + 2)
              r == [repo EXCEPT !.clients[c].payload = <<d1, d2>>]
          IN  repo' = IF pf \notin repo.portfolios
                      THEN Returned(r, c, "CreateBatch", pf, ErrPortfolioNotFound)
                      ELSE IF tx1.err # ""
                      THEN Returned(r, c, "CreateBatch", pf, tx1.err)
                      ELSE IF tx2.err # ""
                      THEN Returned(r, c, "CreateBatch", pf, tx2.err)
                      ELSE Pending([r EXCEPT !.created = @ + 2], c, "CreateBatch", pf,
                                   <<Stamped(tx1, pf), Stamped(tx2, pf)>>)
    /\ UNCHANGED repoFrame

\* TransactionService.Update up to the call of the repository's Update
SvcUpdate(c) ==
    /\ repo.clients[c].pc = "idle"
    /\ \E pf \in PortfolioIds, id \in 1..repo.created, d \in RepoDTOs :
          LET tx == toDomain(d, id)
          IN  repo' = IF RepoGetByID(repo, pf, id) # ""
                      THEN Returned(repo, c, "Update", pf, RepoGetByID(repo, pf, id))
                      ELSE IF tx.err # ""
                      THEN Returned(repo, c, "Update", pf, tx.err)
                      ELSE Pending(repo, c, "Update", pf, <<Stamped(tx, pf)>>)
    /\ UNCHANGED repoFrame

\* the call of the repository that ends CreateOne, CreateBatch and Update
RepoWrite(c) ==
    /\ repo.clients[c].pc = "repo"
    /\ LET me == repo.clients[c]
           res == CASE me.op = "CreateOne" -> RepoCreate(repo, me.pf, me.pending[1])
                    [] me.op = "CreateBatch" -> RepoCreateBatch(repo, me.pf, me.pending)
                    [] me.op = "Update" -> RepoUpdate(repo, me.pf, me.pending[1])
       IN  \E err \in SaveOutcomes(repo, res.err) :
              repo' = Returned(res.repo, c, me.op, me.pf, err)
    /\ UNCHANGED repoFrame

\* TransactionService.Delete
SvcDelete(c) ==
    /\ repo.clients[c].pc = "idle"
    /\ \E pf \in PortfolioIds, id \in 1..repo.created :
          LET res == RepoDelete(repo, pf, id)
          IN  \E err \in SaveOutcomes(repo, res.err) :
                 repo' = Returned(res.repo, c, "Delete", pf, err)
    /\ UNCHANGED repoFrame

\* PortfolioService.Delete
SvcDeletePortfolio(c) ==
    /\ repo.clients[c].pc = "idle"
    /\ \E pf \in PortfolioIds :
          LET res == PortfolioDelete(repo, pf)
          IN  \E err \in SaveOutcomes(repo, res.err) :
                 repo' = Returned(res.repo, c, "DeletePortfolio", pf, err)
    /\ UNCHANGED repoFrame

\* the ids a List without filter returns
Listed(r, pf) ==
    {e.tx.id : e \in {f \in r.transactions :
                         IF r.kind = "memory" THEN f.key = pf ELSE f.tx.pf = pf}}

\* TransactionService.List with the zero filter
SvcList(c) ==
    /\ repo.clients[c].pc = "idle"
    /\ \E pf \in PortfolioIds :
          repo' = IF (IF repo.kind = "memory" THEN pf \notin repo.pools
                                               ELSE pf \notin repo.portfolios)
                  THEN Returned(repo, c, "List", pf, ErrPortfolioNotFound)
                  ELSE [Returned(repo, c, "List", pf, "")
                           EXCEPT !.clients[c].seen = Listed(repo, pf)]
    /\ UNCHANGED repoFrame

RepoNext ==
    \E c \in Clients :
        \/ SvcCreateOne(c) \/ SvcCreateBatch(c) \/ SvcUpdate(c) \/ RepoWrite(c)
        \/ SvcDelete(c) \/ SvcDeletePortfolio(c) \/ SvcList(c)

SpecRepo == RepoInit /\ [][RepoNext]_vars

(***************************************************************************)
(* Claims about the repositories under concurrent clients.                 *)
(***************************************************************************)
\* every stored transaction belongs to an existing portfolio
OwnersExist(r) ==
    \A e \in r.transactions :
        /\ e.tx.pf \in r.portfolios
        /\ r.kind = "memory" => e.key \in r.portfolios

\* client c returns from op in this step
Returns(c, ops) ==
    /\ repo.clients[c].pc # "done"
    /\ repo'.clients[c].pc = "done"
    /\ repo'.clients[c].op \in ops

\* C35: under any interleaving of portfolio Delete with transaction Create,
\* CreateBatch, Update and Delete, in both repositories, every stored
\* transaction belongs to an existing portfolio: a deleted portfolio leaves no
\* transaction behind, and a create or update that reaches the repository
\* after the delete fails with portfolio-not-found and stores nothing.
C35_TransactionsHaveOwners ==
    [][/\ OwnersExist(repo) /\ OwnersExist(repo')
       /\ \A c \in Clients :
            /\ (Returns(c, {"DeletePortfolio"}) /\ repo'.clients[c].err # ErrNotFound) =>
                  /\ repo'.clients[c].pf \notin repo'.portfolios
                  /\ Listed(repo', repo'.clients[c].pf) = {}
            /\ (Returns(c, {"CreateOne", "CreateBatch", "Update"})
                  /\ repo'.clients[c].pf \notin repo.portfolios) =>
                  /\ repo'.clients[c].err = ErrPortfolioNotFound
                  /\ repo'.transactions = repo.transactions]_vars

\* a CreateOne that found its portfolio, converted its payload and reached
\* the repository after another client had deleted the portfolio
C35_Witness ==
    \E c \in Clients, d \in Clients :
        /\ repo.clients[d].pc = "done" /\ repo.clients[d].op = "DeletePortfolio"
        /\ repo.clients[d].pf = 1 /\ repo.clients[d].err = ""
        /\ repo.clients[c].pc = "done" /\ repo.clients[c].op = "CreateOne"
        /\ repo.clients[c].pf = 1 /\ repo.clients[c].err = ErrPortfolioNotFound
        /\ repo.clients[c].pending # <<>>
        /\ repo.transactions = {}

\* the ids of the transactions client c has converted
BatchIds(r, c) == {r.clients[c].pending[k].id : k \in 1..Len(r.clients[c].pending)}

StoredIds(r) == {e.tx.id : e \in r.transactions}

\* a payload of the batch of client c fails validation
BadPayload(r, c) ==
    \E k \in 1..Len(r.clients[c].payload) : toDomain(r.clients[c].payload[k], 0).err # ""

\* C36: CreateBatch is all-or-nothing: when the portfolio does not exist or
\* a DTO of the batch fails validation an error is returned and no transaction
\* of the batch is stored; otherwise every transaction of the batch is stored,
\* and a List never returns part of a batch that is being created.
C36_BatchAllOrNothing ==
    [][\A c \in Clients :
         /\ Returns(c, {"CreateBatch"}) =>
              IF repo'.clients[c].pf \notin repo.portfolios \/ BadPayload(repo', c)
              THEN /\ repo'.clients[c].err # ""
                   /\ repo'.transactions = repo.transactions
              ELSE /\ Len(repo'.clients[c].pending) = Len(repo'.clients[c].payload)
                   /\ BatchIds(repo', c) \subseteq Listed(repo', repo'.clients[c].pf)
         /\ (repo'.clients[c].op = "CreateBatch" /\ repo'.clients[c].pc = "repo") =>
              BatchIds(repo', c) \cap StoredIds(repo') = {}
         /\ (Returns(c, {"List"}) /\ repo'.clients[c].err = "") =>
              repo'.clients[c].seen = Listed(repo, repo'.clients[c].pf)]_vars

\* a batch of two was stored and another client's List returned all of it
C36_Witness ==
    \E c \in Clients, d \in Clients :
        /\ repo.clients[c].pc = "done" /\ repo.clients[c].op = "CreateBatch"
        /\ repo.clients[c].err = "" /\ Len(repo.clients[c].pending) = 2
        /\ repo.clients[d].pc = "done" /\ repo.clients[d].op = "List"
        /\ repo.clients[d].pf = repo.clients[c].pf
        /\ BatchIds(repo, c) \subseteq repo.clients[d].seen

(***************************************************************************)
(* List of the transaction repository.                                     *)
(***************************************************************************)
IntBits == 5

\* the range of the integers limit and offset are kept in (Go's int, narrowed)
MaxInt == 2 ^ (IntBits - 1) - 1
MinInt == 0 - 2 ^ (IntBits - 1)

\* addition of two ints wraps around
Wrap(x) == ((x + 2 ^ (IntBits - 1)) % (2 ^ IntBits)) - 2 ^ (IntBits - 1)

\* ListFilter{}: no symbol, no sort, no paging
ZeroFilter == [symbol |-> "", sort |-> "", limit |-> 0, offset |-> 0]

\* the orders a range over a map may produce
MapOrders(S) ==
    {s \in [1..Cardinality(S) -> S] :
        \A a, b \in 1..Cardinality(S) : a # b => s[a] # s[b]}

\* the transactions List collects before it sorts: those of the portfolio
\* that pass the symbol filter
Collected(r, pf, f) ==
    {e.tx : e \in {g \in r.transactions :
                      /\ IF r.kind = "memory" THEN g.key = pf ELSE g.tx.pf = pf
                      /\ f.symbol = "" \/ EqualFold(f.symbol, g.tx.sym)}}

\* switch filter.Sort
ListSorted(o, f) ==
    IF f.sort \in {"date_asc", "date_desc"}
    THEN insertionSort(o, IF f.sort = "date_asc" THEN "date" ELSE "date_desc")
    ELSE o

\* the slice bounds List computes from offset and limit
ListEnd(n, f) ==
    IF f.limit > 0 /\ Wrap(f.offset + f.limit) < n THEN Wrap(f.offset + f.limit) ELSE n

\* out[start:end] on a slice of length n panics outside 0 <= start <= end <= n
\* (the capacity of out may exceed n; then a larger end yields zero values
\* instead of a panic, which cannot happen here as end <= n)
Paged(o, f) ==
    IF f.offset > Len(o)
    THEN [err |-> "", panic |-> FALSE, items |-> <<>>]
    ELSE IF f.offset < 0 \/ ListEnd(Len(o), f) < f.offset
    THEN [err |-> "", panic |-> TRUE, items |-> <<>>]
    ELSE [err |-> "", panic |-> FALSE,
          items |-> SubSeq(o, f.offset + 1, ListEnd(Len(o), f))]

\* the outcomes of List(portfolioID, filter)
RepoList(r, pf, f) ==
    IF (IF r.kind = "memory" THEN pf \notin r.pools ELSE pf \notin r.portfolios)
    THEN {[err |-> ErrPortfolioNotFound, panic |-> FALSE, items |-> <<>>]}
    ELSE {Paged(ListSorted(o, f), f) : o \in MapOrders(Collected(r, pf, f))}

(***************************************************************************)
(* The entry specification: ComputeAllocations, ComputeSummary and         *)
(* ComputeBacktest from the lookup of the portfolio to the result.         *)
(***************************************************************************)
MaxEntryTxs == 1

\* a Transaction as the repository stores it: with its PortfolioID
StoredTx(tx, pf) ==
    [id |-> tx.id, pf |-> pf, date |-> tx.date, tt |-> tx.tt, sym |-> tx.sym,
     ccy |-> tx.ccy, shares |-> tx.shares, total |-> tx.total]

\* the repository after the transactions of list were created in pf
RECURSIVE Seeded(_, _, _)
Seeded(r, pf, list) ==
    IF list = <<>> THEN r
    ELSE Seeded(Put(r, pf, StoredTx(Head(list), pf)), pf, Tail(list))

EntryInit ==
    /\ refCCY = "TWD"
    /\ exchanger \in {NoExchanger, Answering([r |-> 2, err |-> FALSE])}
    /\ prices \in {NoProvider, SomeProvider, HistoryCapable}
    /\ quotes = NoQuotes
    /\ txs = <<>>
    /\ pc = "call"
    /\ xs = <<>>
    /\ i = 0
    /\ st = ZeroSt
    /\ cs = ZeroStats
    /\ bucket = NoBucket
    /\ out = NoOut
    /\ rateFrom = ""
    /\ rateOut = 0
    /\ bt = ZeroBt
    /\ allocBasis = ""
    /\ pv = ZeroPv
    /\ hl = ZeroHl
    /\ store = ZeroStore
    /\ cp = ZeroCp
    /\ \E k \in RepoKinds, list \in DatedTxLists(EventPool, MaxEntryTxs) :
          repo = Seeded([ZeroRepo EXCEPT !.kind = k, !.portfolios = {1}, !.pools = {1},
                                         !.created = Len(list)],
                        1, list)

\* the portfolio repository's GetByID
PortfolioMissing(r, pf) == pf \notin r.portfolios

\* a handler that answers an unknown portfolio with an empty result
NotFoundOut_Empty(kind) == [kind |-> kind, err |-> ""]

\* return XResponse{}, ErrPortfolioNotFound
NotFoundOut(kind) == ErrorOut(kind, ErrPortfolioNotFound)

entryFrame ==
    <<refCCY, exchanger, prices, quotes, xs, i, st, cs, bucket, rateFrom, rateOut,
      bt, allocBasis, pv, hl, store, cp>>

\* the handler looks the portfolio up and lists its transactions; the
\* computation then starts from pc = "idle" with the listed slice
Enter(kind, done, pf) ==
    /\ repo' = [repo EXCEPT !.call = kind, !.arg = pf]
    /\ IF PortfolioMissing(repo, pf)
       THEN /\ out' = NotFoundOut(kind)
            /\ pc' = done
            /\ txs' = txs
       ELSE \E l \in RepoList(repo, pf, ZeroFilter) :
               IF l.err # ""
               THEN /\ out' = ErrorOut(kind, l.err)
                    /\ pc' = done
                    /\ txs' = txs
               ELSE /\ out' = out
                    /\ pc' = "idle"
                    /\ txs' = l.items

ComputeAllocations ==
    /\ pc = "call"
    /\ \E pf \in PortfolioIds : Enter("alloc", "allocDone", pf)
    /\ UNCHANGED entryFrame

\* ComputeSummary tests the price provider before it looks the portfolio up
ComputeSummary ==
    /\ pc = "call"
    /\ \E pf \in PortfolioIds :
          IF prices.nil
          THEN /\ repo' = [repo EXCEPT !.call = "summary", !.arg = pf]
               /\ out' = ErrorOut("summary", "no PriceProvider configured (required for summary)")
               /\ pc' = "sumDone"
               /\ txs' = txs
          ELSE Enter("summary", "sumDone", pf)
    /\ UNCHANGED entryFrame

ComputeBacktest ==
    /\ pc = "call"
    /\ \E pf \in PortfolioIds : Enter("backtest", "btDone", pf)
    /\ UNCHANGED entryFrame

EntryNext ==
    \/ ComputeAllocations \/ ComputeSummary \/ ComputeBacktest
    \/ (repo.call = "alloc" /\ (AllocSort \/ AllocLoop \/ AllocReturn))
    \/ (repo.call = "summary" /\ (SummarySort \/ SummaryLoop \/ SummaryReturn))
    \/ (repo.call = "backtest" /\
          (BtStart \/ AltDay \/ AltEvent \/ AltFinal \/ CurTop \/ CurBody \/ CurClose \/ CurAsOf))

SpecEntry == EntryInit /\ [][EntryNext]_vars

\* a handler has returned
EntryReturned == pc \in {"allocDone", "sumDone", "btDone"} /\ repo.call # ""

\* C34 as stated: each of the three handlers, called with the id of a
\* portfolio that does not exist, returns the portfolio-not-found error and
\* no result, whatever price and FX collaborators are configured.
C34_AsStated ==
    (EntryReturned /\ PortfolioMissing(repo, repo.arg)) =>
        out = [kind |-> repo.call, err |-> ErrPortfolioNotFound]

\* C34 (amended): ComputeAllocations and ComputeBacktest called with the id
\* of a portfolio that does not exist return the portfolio-not-found error and
\* no result, whatever price and FX collaborators are configured; ComputeSummary
\* does so when a price provider is configured and returns the
\* no-price-provider error, and no result, when none is.
C34_NotFoundAfterProviderCheck ==
    (EntryReturned /\ PortfolioMissing(repo, repo.arg)) =>
        out = [kind |-> repo.call,
               err |-> IF repo.call = "summary" /\ prices.nil
                       THEN "no PriceProvider configured (required for summary)"
                       ELSE ErrPortfolioNotFound]

\* ComputeBacktest without a price provider and ComputeSummary with one have
\* answered a call for a portfolio that does not exist
C34_Witness ==
    /\ EntryReturned /\ PortfolioMissing(repo, repo.arg)
    /\ \/ repo.call = "backtest" /\ prices.nil /\ exchanger.nil
       \/ repo.call = "summary" /\ ~prices.nil

(***************************************************************************)
(* The list specification: TransactionService.List with the filter the     *)
(* HTTP handler builds from the query.                                     *)
(***************************************************************************)
MaxListTxs == 2

ListPool ==
    {<<Tmpl("buy", "AMZN", "TWD", 10, -1000), FirstDate>>,
     <<Tmpl("buy", "AMZN", "TWD", 10, -1000), LastDate>>,
     <<Tmpl("buy", "BHP.AX", "USD", 1, -10), FirstDate>>,
     <<Tmpl("cash", "", "TWD", 0, 500), LastDate>>}

\* atoiDefault lets every int through
QueryInts == {MinInt, -1, 0, 1, 2, MaxInt}

\* the filters listTx passes on: sort is validated, limit and offset are not
Filters ==
    [symbol : {"", "amzn"}, sort : {"", "date_asc", "date_desc"},
     limit : QueryInts, offset : QueryInts]

ListInit ==
    /\ refCCY = "TWD"
    /\ exchanger = NoExchanger
    /\ prices = NoProvider
    /\ quotes = NoQuotes
    /\ txs = <<>>
    /\ pc = "call"
    /\ xs = <<>>
    /\ i = 0
    /\ st = ZeroSt
    /\ cs = ZeroStats
    /\ bucket = NoBucket
    /\ out = NoOut
    /\ rateFrom = ""
    /\ rateOut = 0
    /\ bt = ZeroBt
    /\ allocBasis = ""
    /\ pv = ZeroPv
    /\ hl = ZeroHl
    /\ store = ZeroStore
    /\ cp = ZeroCp
    /\ \E k \in RepoKinds, list \in DatedTxLists(ListPool, MaxListTxs) :
          repo = Seeded([ZeroRepo EXCEPT !.kind = k, !.portfolios = {1}, !.pools = {1},
                                         !.created = Len(list)],
                        1, list)

\* Server.listTx and TransactionService.List: the repository's answer, or
\* the panic of its slice expression
ListTx ==
    /\ pc = "call"
    /\ \E pf \in PortfolioIds, f \in Filters :
          /\ repo' = [repo EXCEPT !.call = "list", !.arg = pf, !.filter = f]
          /\ \E l \in RepoList(repo, pf, f) :
                out' = [kind |-> "list", err |-> l.err, panic |-> l.panic, items |-> l.items]
    /\ pc' = "listDone"
    /\ UNCHANGED <<entryFrame, txs>>

ListNext == ListTx

SpecList == ListInit /\ [][ListNext]_vars

\* List has answered a call for an existing portfolio
ListReturned == pc = "listDone" /\ ~PortfolioMissing(repo, repo.arg)

\* the elements [offset, offset+limit) of o, positions counted from 0, and
\* all elements from offset on when limit <= 0
Window(o, f) ==
    LET from == IF f.offset < 0 THEN 0 ELSE f.offset
        to == IF f.limit <= 0 THEN Len(o)
              ELSE IF f.offset + f.limit < Len(o) THEN Max(f.offset + f.limit, from)
              ELSE Len(o)
    IN  IF from > Len(o) THEN <<>> ELSE SubSeq(o, from + 1, to)

\* C37: List on an existing portfolio returns, for every integer limit and
\* offset, the elements [offset, offset+limit) of the filtered and sorted
\* transactions (all from offset on when limit <= 0), an empty list when
\* offset exceeds their count, and never fails or crashes.
C37_ListPagesEveryOffset ==
    ListReturned =>
        /\ ~out.panic
        /\ out.err = ""
        /\ \E o \in MapOrders(Collected(repo, repo.arg, repo.filter)) :
              out.items = Window(ListSorted(o, repo.filter), repo.filter)

(***************************************************************************)
(* The flat-price specification: the alternate simulation against a        *)
(* provider that quotes one price on every day and now, next to one whose  *)
(* price moves.                                                            *)
(***************************************************************************)
MaxFlatTxs == 2

FlatPrice == {[price |-> 100, err |-> FALSE]}

MovingPrice == {[price |-> 100, err |-> FALSE], [price |-> 50, err |-> FALSE]}

FlatPool ==
    {<<Tmpl("cash", "", "TWD", 0, 500), FirstDate>>,
     <<Tmpl("cash", "", "TWD", 0, -100), FirstDate>>,
     <<Tmpl("cash", "", "TWD", 0, -1000), LastDate>>,
     <<Tmpl("buy", "AMZN", "TWD", 10, -800), FirstDate>>,
     <<Tmpl("sell", "AMZN", "TWD", 10, 1200), FirstDate>>}

FlatInit ==
    /\ refCCY = "TWD"
    /\ exchanger = Answering([r |-> 2, err |-> FALSE])
    /\ prices \in {Quoting(h, a) : h \in BOOLEAN, a \in {FlatPrice, MovingPrice}}
    /\ txs \in DatedTxLists(FlatPool, MaxFlatTxs)
    /\ quotes = NoQuotes
    /\ pc = "idle"
    /\ xs = <<>>
    /\ i = 0
    /\ st = ZeroSt
    /\ cs = ZeroStats
    /\ bucket = NoBucket
    /\ out = NoOut
    /\ rateFrom = ""
    /\ rateOut = 0
    /\ bt = ZeroBt
    /\ allocBasis = ""
    /\ pv = ZeroPv
    /\ hl = ZeroHl
    /\ store = ZeroStore
    /\ cp = ZeroCp
    /\ repo = ZeroRepo

FlatNext == BtStart \/ AltDay \/ AltEvent \/ AltFinal

SpecFlat == FlatInit /\ [][FlatNext]_vars

\* the alternate simulation has been valued at the current price
AltValued == pc \in {"curTop", "curAsOf"}

\* deposits less withdrawals over the first k events
RECURSIVE NetContributed(_, _)
NetContributed(evs, k) ==
    IF k = 0 THEN 0
    ELSE NetContributed(evs, k - 1) +
         (IF evs[k].kind = "deposit" THEN evs[k].amount ELSE 0 - evs[k].amount)

\* at a flat price the simulated holding is worth the net contributions so
\* far: no withdrawal exceeds it
NoOverdraw(evs) == \A k \in 1..Len(evs) : NetContributed(evs, k) >= 0

MaxInferTxs == 3

\* var sum, prefix, minPrefix float64
ZeroScan == [sum |-> 0, prefix |-> 0, minPrefix |-> 0]

\* the loop body of inferBalance
ScanStep(s, tx) ==
    LET p == s.prefix + Delta(tx)
    IN  [sum |-> s.sum + Delta(tx), prefix |-> p,
         minPrefix |-> IF p < s.minPrefix THEN p ELSE s.minPrefix]

RECURSIVE Scan(_, _, _)
Scan(s, sorted, k) ==
    IF k > Len(sorted) THEN s ELSE Scan(ScanStep(s, sorted[k]), sorted, k + 1)

\* an inferred deposit taken from the final prefix instead of the lowest
inferredDeposit_FromFinal(s) == IF s.prefix < 0 THEN 0 - s.prefix ELSE 0

\* inferredDeposit: minus the lowest running prefix, when that is negative
inferredDeposit(s) == IF s.minPrefix < 0 THEN 0 - s.minPrefix ELSE 0

\* inferBalance as a function of its argument, with its local inferredDeposit
inferBalance(list) ==
    IF Len(list) = 0 THEN [balance |-> 0, inferredDeposit |-> 0]
    ELSE LET s == Scan(ZeroScan, insertionSort(list, "cash"), 1)
         IN  [balance |-> inferredDeposit(s) + s.sum, inferredDeposit |-> inferredDeposit(s)]

InferInit ==
    /\ refCCY = "TWD"
    /\ exchanger \in CashExchangers
    /\ prices = NoProvider
    /\ quotes = NoQuotes
    /\ txs \in TxLists(CashPool, MaxInferTxs)
    /\ pc = "call"
    /\ xs = <<>>
    /\ i = 0
    /\ st = ZeroSt
    /\ cs = ZeroStats
    /\ bucket = NoBucket
    /\ out = NoOut
    /\ rateFrom = ""
    /\ rateOut = 0
    /\ bt = ZeroBt
    /\ allocBasis = ""
    /\ pv = ZeroPv
    /\ hl = ZeroHl
    /\ store = ZeroStore
    /\ cp = ZeroCp
    /\ repo = ZeroRepo

\* a call of inferBalance; computeCashStats then runs on the same list
InferBalanceCall ==
    /\ pc = "call"
    /\ out' = [kind |-> "balance", err |-> "",
               balance |-> inferBalance(txs).balance,
               inferredDeposit |-> inferBalance(txs).inferredDeposit]
    /\ pc' = "idle"
    /\ UNCHANGED <<envVars, txs, xs, i, st, cs, bucket, quotes, rateVars, bt, allocBasis,
                   pv, hl, store, cp, repo>>

InferNext == InferBalanceCall \/ CashSort \/ CashLoop \/ CashReturn

SpecInfer == InferInit /\ [][InferNext]_vars

\* both functions have returned
BothReturned == pc = "cashDone" /\ out.kind = "balance"

\* the total of a list of cash events
RECURSIVE EventSum(_)
EventSum(evs) == IF evs = <<>> THEN 0 ELSE Head(evs).amount + EventSum(Tail(evs))

\* C39: the single up-front inferred deposit of inferBalance equals the
\* total of the step-by-step inferred deposits of computeCashStats, and the
\* result of inferBalance equals the ending balance of computeCashStats.
C39_InferBalanceAgrees ==
    BothReturned =>
        /\ out.inferredDeposit = EventSum(cs.inferredEvents)
        /\ out.inferredDeposit = cs.inferred
        /\ out.balance = cs.balance

\* both have returned for a list that needed two separate top-ups
C39_Witness ==
    /\ BothReturned
    /\ Len(cs.inferredEvents) >= 2
    /\ cs.balance > 0
    /\ \E k \in 1..Len(txs) : txs[k].tt = "cash" /\ txs[k].total < 0

====
